---- MODULE Spec2Model ----
(***************************************************************************)
(* Code health dashboard: the aggregation logic of the CodeHealth page     *)
(* (src/unnamed/part_000), of the CodeHealthHistory page                   *)
(* (src/unnamed/part_002) with src/ui/utils/codeHealthUtils.tsx, and of    *)
(* the earlier page src/ui/pages/CodeHealth.tsx.                           *)
(*                                                                         *)
(* The specifications that share the module:                               *)
(*   SpecScore     the composite score of one file record                  *)
(*   SpecCat       the categorisation of one filepath                      *)
(*   SpecHist      the views derived from a fetched snapshot history       *)
(*   SpecView      the same with the selection of a component              *)
(*   SpecPage      a page from its mount on: fetch, analysis runs, errors  *)
(*   SpecPageLive  SpecPage when every backend call returns or fails       *)
(*   SpecFix       the fix prompt that createFixTask builds                *)
(*   SpecSeverity  the score-to-severity mappings                          *)
(*   SpecTask      the Copy Fix Prompt buttons and their timeouts          *)
(* Strings the code inspects character by character (filepaths) are        *)
(* sequences of one-character strings; labels the code only compares are   *)
(* TLA+ strings.                                                           *)
(***************************************************************************)
EXTENDS Integers, Sequences, FiniteSets, TLC

VARIABLES
    file,           \* SpecScore: the file record whose composite score is taken
    avgScore,       \* SpecScore: result per implementation of calculateFileAvgScore
    filepath,       \* SpecCat: the filepath being categorised
    category,       \* SpecCat: result per implementation of categorizeFileByPath
    healthHistory,  \* SpecHist: the state healthHistory (HealthHistoryEntry[])
    allFiles,       \* SpecHist: what getFilesGroupedByType of part_000 returned
    allFilesUtils,  \* SpecHist: what getFilesGroupedByType of part_002 returned
    fileTrends,     \* SpecHist: what calculateFileTrends returned
    selectedComponent,  \* SpecView: the state selectedComponent
    sections,       \* SpecHist, SpecView: the category sections a page rendered
    loading,        \* SpecPage: the state loading
    error,          \* SpecPage: the state error
    pending,        \* SpecPage, SpecTask: the operations awaiting a response
    started,        \* SpecPage: how many times runNewAnalysis was started
    derived,        \* SpecPage: recommendations and top issues the page rendered
    responseData,   \* SpecPage: the bodies of the history responses read, oldest first
    promptText,     \* SpecFix, SpecTask: the fix prompt on the clipboard
    creatingTask,   \* SpecTask: the state creatingTask
    taskCreationSuccess,  \* SpecTask: the state taskCreationSuccess
    taskCreationError,    \* SpecTask: the state taskCreationError
    timers,         \* SpecTask: the timeouts that were set, oldest first
    score,          \* SpecSeverity: the score that is mapped to a severity level
    severity,       \* SpecSeverity: result per score-to-severity mapping
    calls           \* the operations applied so far; for a page, the page that renders

vars == <<file, avgScore, filepath, category, healthHistory, allFiles,
          allFilesUtils, fileTrends, selectedComponent, sections, loading,
          error, pending, started, derived, responseData, promptText, creatingTask,
          taskCreationSuccess, taskCreationError, timers, score, severity, calls>>

\* the variables of the page lifecycle
pageVars == <<loading, error, pending, started, derived, responseData, promptText>>

\* the variables of the Copy Fix Prompt button
taskVars == <<creatingTask, taskCreationSuccess, taskCreationError, timers>>

\* the variables of the score-to-severity mappings
severityVars == <<score, severity>>

(***************************************************************************)
(* Bounds and program constants                                            *)
(***************************************************************************)
\* scores are 0-100 (codeHealthUtils.tsx, "Rounded average score (0-100)")
MaxScore == 100

\* the six sub-score fields of a file record, in the order the code adds them
ScoreKeys == <<"size_score", "complexity_score", "duplication_score",
               "function_length_score", "comment_density_score",
               "naming_convention_score">>

ScoreKeySet == {ScoreKeys[i] : i \in 1..Len(ScoreKeys)}

(***************************************************************************)
(* JavaScript values. Numbers are integers; the two non-numbers that the   *)
(* arithmetic can meet are encoded outside the integer range of scores.    *)
(***************************************************************************)
\* the value of a property that the record does not have
Undefined == -2

\* the result of arithmetic on undefined
NaN == -1

IsNumber(v) == v # NaN /\ v # Undefined

\* file.k
Field(f, k) == IF k \in DOMAIN f THEN f[k] ELSE Undefined

\* a + b
JsAdd(a, b) == IF IsNumber(a) /\ IsNumber(b) THEN a + b ELSE NaN

\* mutant: b - a
JsSubReversed(a, b) == IF IsNumber(a) /\ IsNumber(b) THEN b - a ELSE NaN

\* a - b
JsSub(a, b) == IF IsNumber(a) /\ IsNumber(b) THEN a - b ELSE NaN

\* a || b: b when a is falsy (0, NaN, undefined)
JsOr(a, b) == IF a = 0 \/ a = NaN \/ a = Undefined THEN b ELSE a

\* mutant: Math.floor in place of Math.round
MathFloorDiv(n, d) == IF IsNumber(n) THEN n \div d ELSE NaN

\* Math.round(n / d) for an integer n >= 0 and d > 0: floor(n/d + 1/2), halves up
MathRoundDiv(n, d) == IF IsNumber(n) THEN (2 * n + d) \div (2 * d) ELSE NaN

(***************************************************************************)
(* calculateFileAvgScore, three implementations                            *)
(***************************************************************************)
\* scores.reduce((a, b) => a + b, 0)
RECURSIVE Reduce(_, _)
Reduce(s, acc) == IF s = <<>> THEN acc ELSE Reduce(Tail(s), JsAdd(acc, Head(s)))

\* part_000: each sub-score is coalesced with "|| 0" before the mean
calculateFileAvgScore(f) ==
    LET scores == [i \in 1..Len(ScoreKeys) |-> JsOr(Field(f, ScoreKeys[i]), 0)]
    IN  MathRoundDiv(Reduce(scores, 0), Len(scores))

\* the plain sum of the six fields, left to right
PlainSum(f) ==
    JsAdd(JsAdd(JsAdd(JsAdd(JsAdd(Field(f, "size_score"),
                                  Field(f, "complexity_score")),
                            Field(f, "duplication_score")),
                      Field(f, "function_length_score")),
                Field(f, "comment_density_score")),
          Field(f, "naming_convention_score"))

\* codeHealthUtils.tsx: no coalescing
calculateFileAvgScoreUtils(f) == MathRoundDiv(PlainSum(f), 6)

\* pages/CodeHealth.tsx: no coalescing
calculateFileAvgScoreInline(f) == MathRoundDiv(PlainSum(f), 6)

ScoreImpls == {"page", "utils", "inline"}

(***************************************************************************)
(* SpecScore: one file record, scored by each implementation               *)
(***************************************************************************)
\* sub-score values of the coarse fields
CoarseScores == {0, MaxScore}

\* complete records: one field ranges over 0..MaxScore, the others are coarse,
\* so that the sum takes every value in 0..6*MaxScore
CompleteFiles(coarse) ==
    UNION {{[k \in ScoreKeySet |-> IF k = fine THEN v ELSE c[k]] :
               v \in 0..MaxScore, c \in [ScoreKeySet \ {fine} -> coarse]}
           : fine \in ScoreKeySet}

\* records that lack one or more of the six fields
PartialFiles(values) ==
    UNION {[present -> values]
           : present \in (SUBSET ScoreKeySet) \ {ScoreKeySet}}

Idle == <<>>

\* the Copy Fix Prompt button and the severity mappings are not part of the
\* behaviour
TaskIdle ==
    /\ creatingTask = Idle /\ taskCreationSuccess = Idle
    /\ taskCreationError = Idle /\ timers = Idle
    /\ score = Idle /\ severity = Idle

\* the page lifecycle is not part of the behaviour
PageIdle ==
    /\ loading = Idle /\ error = Idle /\ pending = Idle /\ started = Idle
    /\ derived = Idle /\ responseData = Idle /\ promptText = Idle
    /\ TaskIdle

InitScore ==
    /\ file \in CompleteFiles(CoarseScores) \cup PartialFiles(CoarseScores \cup {50})
    /\ avgScore = [i \in ScoreImpls |-> 0]
    /\ calls = {}
    /\ filepath = Idle /\ category = Idle /\ healthHistory = Idle
    /\ allFiles = Idle /\ allFilesUtils = Idle /\ fileTrends = Idle
    /\ selectedComponent = Idle /\ sections = Idle
    /\ PageIdle

ScoreFrame == UNCHANGED <<file, filepath, category, healthHistory, allFiles,
                          allFilesUtils, fileTrends, selectedComponent, sections,
                          pageVars, taskVars, severityVars>>

CallAvgScorePage ==
    /\ "page" \notin calls
    /\ avgScore' = [avgScore EXCEPT !["page"] = calculateFileAvgScore(file)]
    /\ calls' = calls \cup {"page"}
    /\ ScoreFrame

CallAvgScoreUtils ==
    /\ "utils" \notin calls
    /\ avgScore' = [avgScore EXCEPT !["utils"] = calculateFileAvgScoreUtils(file)]
    /\ calls' = calls \cup {"utils"}
    /\ ScoreFrame

CallAvgScoreInline ==
    /\ "inline" \notin calls
    /\ avgScore' = [avgScore EXCEPT !["inline"] = calculateFileAvgScoreInline(file)]
    /\ calls' = calls \cup {"inline"}
    /\ ScoreFrame

NextScore == CallAvgScorePage \/ CallAvgScoreUtils \/ CallAvgScoreInline

SpecScore == InitScore /\ [][NextScore]_vars

\* the six sub-scores are all present (and, by InitScore, integers in 0..MaxScore)
Complete(f) == ScoreKeySet \subseteq DOMAIN f

\* the arithmetic sum of the sub-scores that are present
PresentSum(f) ==
    LET RECURSIVE Sum(_)
        Sum(ks) == IF ks = {} THEN 0
                   ELSE LET k == CHOOSE x \in ks : TRUE
                        IN  f[k] + Sum(ks \ {k})
    IN  Sum(DOMAIN f \cap ScoreKeySet)

\* r is sum/den rounded to the nearest integer, halves rounded up (Math.round)
IsRounded(r, sum, den) == 2 * den * r - den <= 2 * sum /\ 2 * sum < 2 * den * r + den

\* the composite score of a complete file record: round(sum / 6)
Composite(f) == CHOOSE r \in 0..MaxScore : IsRounded(r, PresentSum(f), 6)

\* C1: for a file whose six sub-scores are integers in [0,100], every
\* implementation of calculateFileAvgScore returns sum/6 rounded to the nearest
\* integer (Math.round), and the result is an integer in [0,100].
Thm_C1 ==
    \A i \in calls \cap ScoreImpls :
        Complete(file) =>
            /\ IsRounded(avgScore[i], PresentSum(file), 6)
            /\ avgScore[i] \in 0..MaxScore

\* five sub-scores of 100 and one of 99: 599/6 = 99.83 is rounded to 100 by all three
Wit_C1 ==
    /\ calls = ScoreImpls
    /\ Complete(file)
    /\ PresentSum(file) = 6 * MaxScore - 1
    /\ \A i \in ScoreImpls : avgScore[i] = MaxScore

\* C5: when a file record lacks one or more sub-scores, every implementation
\* treats each missing sub-score as 0 and returns round((sum of the present
\* sub-scores)/6), a number, never NaN.
Cex_C5 ==
    \A i \in calls \cap ScoreImpls :
        ~Complete(file) =>
            /\ avgScore[i] # NaN
            /\ IsRounded(avgScore[i], PresentSum(file), 6)

(***************************************************************************)
(* Filepaths and substring matching                                        *)
(***************************************************************************)
\* '/pages/'
P_pages == <<"/", "p", "a", "g", "e", "s", "/">>

\* '/components/'
P_components == <<"/", "c", "o", "m", "p", "o", "n", "e", "n", "t", "s", "/">>

\* '/utils/'
P_utils == <<"/", "u", "t", "i", "l", "s", "/">>

\* '/src/utils/'
P_src_utils == <<"/", "s", "r", "c", "/", "u", "t", "i", "l", "s", "/">>

\* '/apis/'
P_slash_apis == <<"/", "a", "p", "i", "s", "/">>

\* '/api/'
P_slash_api == <<"/", "a", "p", "i", "/">>

\* 'app/apis/'
P_app_apis == <<"a", "p", "p", "/", "a", "p", "i", "s", "/">>

\* 'src/app/apis/'
P_src_app_apis == <<"s", "r", "c", "/", "a", "p", "p", "/", "a", "p", "i", "s", "/">>

\* 'apis/'
P_apis == <<"a", "p", "i", "s", "/">>

\* 'api/'
P_api == <<"a", "p", "i", "/">>

\* '/__init__'
P_init == <<"/", "_", "_", "i", "n", "i", "t", "_", "_">>

\* 'py'
P_py == <<"p", "y">>

\* '.py'
P_dot_py == <<".", "p", "y">>

\* directory names of the modelled filepaths
DirNames == {
    <<"u", "i">>,
    <<"s", "r", "c">>,
    <<"a", "p", "p">>,
    <<"p", "a", "g", "e", "s">>,
    <<"P", "a", "g", "e", "s">>,
    <<"c", "o", "m", "p", "o", "n", "e", "n", "t", "s">>,
    <<"u", "t", "i", "l", "s">>,
    <<"a", "p", "i", "s">>,
    <<"a", "p", "i">>,
    <<"o", "k", "a", "p", "i">>}

\* file names of the modelled filepaths
FileNames == {
    <<"H", "o", "m", "e", ".", "t", "s", "x">>,
    <<"_", "_", "i", "n", "i", "t", "_", "_", ".", "p", "y">>,
    <<"h", "e", "l", "p", "e", "r", "s", ".", "t", "s">>}
\* the longest run of leading '/' characters of a modelled filepath
MaxLeadingSlashes == 1

\* the largest number of directories of a modelled filepath
MaxDirs == 2

RECURSIVE Slashes(_)
Slashes(n) == IF n = 0 THEN <<>> ELSE <<"/">> \o Slashes(n - 1)

\* dir1/dir2/.../
RECURSIVE JoinDirs(_)
JoinDirs(ds) == IF ds = <<>> THEN <<>> ELSE Head(ds) \o <<"/">> \o JoinDirs(Tail(ds))

Paths(maxSlashes, maxDirs) ==
    {Slashes(n) \o JoinDirs(ds) \o name :
        n \in 0..maxSlashes,
        ds \in UNION {[1..k -> DirNames] : k \in 0..maxDirs},
        name \in FileNames}

\* pat occurs in s at position i
MatchAt(s, i, pat) ==
    /\ i >= 1
    /\ i + Len(pat) - 1 <= Len(s)
    /\ \A k \in 1..Len(pat) : s[i + k - 1] = pat[k]

\* s.includes(pat)
Includes(s, pat) == \E i \in 1..(Len(s) + 1) : MatchAt(s, i, pat)

\* s[a..b] is a non-empty run without '/': the regular expression [^\/]+
NonSlashRun(s, a, b) == a <= b /\ b <= Len(s) /\ \A k \in a..b : s[k] # "/"

\* s.match(/apis\/[^\/]+\/__init__.py/): the '.' matches any one character
MatchApisInit(s) ==
    \E i \in 1..Len(s) :
        /\ MatchAt(s, i, P_apis)
        /\ \E j \in (i + Len(P_apis))..Len(s) :
              /\ NonSlashRun(s, i + Len(P_apis), j)
              /\ MatchAt(s, j + 1, P_init)
              /\ j + 1 + Len(P_init) <= Len(s)
              /\ MatchAt(s, j + 2 + Len(P_init), P_py)

\* s.match(/apis\/[^\/]+\/.*\.py/)
MatchApisPy(s) ==
    \E i \in 1..Len(s) :
        /\ MatchAt(s, i, P_apis)
        /\ \E j \in (i + Len(P_apis))..Len(s) :
              /\ NonSlashRun(s, i + Len(P_apis), j)
              /\ MatchAt(s, j + 1, <<"/">>)
              /\ \E k \in (j + 2)..Len(s) : MatchAt(s, k, P_dot_py)

\* s.match(/api\/[^\/]+/)
MatchApiSegment(s) ==
    \E i \in 1..Len(s) :
        /\ MatchAt(s, i, P_api)
        /\ NonSlashRun(s, i + Len(P_api), i + Len(P_api))

\* filepath.replace(/^\/+/, '')
RECURSIVE StripLeadingSlashes(_)
StripLeadingSlashes(s) ==
    IF s # <<>> /\ Head(s) = "/" THEN StripLeadingSlashes(Tail(s)) ELSE s

(***************************************************************************)
(* categorizeFileByPath, three implementations                             *)
(***************************************************************************)
Categories == <<"Pages", "Components", "UI Files", "API Files", "Other">>

CategorySet == {Categories[i] : i \in 1..Len(Categories)}

\* part_000: the API test of the normalized path
IsApiPath(normalizedPath) ==
    \/ Includes(normalizedPath, P_app_apis)
    \/ Includes(normalizedPath, P_src_app_apis)
    \/ Includes(normalizedPath, P_apis)
    \/ MatchApisInit(normalizedPath)
    \/ MatchApisPy(normalizedPath)
    \/ MatchApiSegment(normalizedPath)
    \/ Includes(normalizedPath, P_slash_api)

\* mutant: a path that matches no pattern gets no category
categorizeNoDefault(fp) ==
    LET normalizedPath == StripLeadingSlashes(fp)
    IN  IF IsApiPath(normalizedPath) THEN "API Files"
        ELSE IF Includes(normalizedPath, P_pages) THEN "Pages"
        ELSE IF Includes(normalizedPath, P_components) THEN "Components"
        ELSE IF Includes(normalizedPath, P_utils) \/ Includes(normalizedPath, P_src_utils)
             THEN "UI Files"
        ELSE "undefined"

\* part_000: leading slashes stripped, API patterns first
categorizeFileByPath(fp) ==
    LET normalizedPath == StripLeadingSlashes(fp)
    IN  IF IsApiPath(normalizedPath) THEN "API Files"
        ELSE IF Includes(normalizedPath, P_pages) THEN "Pages"
        ELSE IF Includes(normalizedPath, P_components) THEN "Components"
        ELSE IF Includes(normalizedPath, P_utils) \/ Includes(normalizedPath, P_src_utils)
             THEN "UI Files"
        ELSE "Other"

\* codeHealthUtils.tsx: the raw path, API patterns last
categorizeFileByPathUtils(fp) ==
    IF Includes(fp, P_pages) THEN "Pages"
    ELSE IF Includes(fp, P_components) THEN "Components"
    ELSE IF Includes(fp, P_utils) \/ Includes(fp, P_src_utils) THEN "UI Files"
    ELSE IF Includes(fp, P_slash_apis) \/ Includes(fp, P_slash_api) THEN "API Files"
    ELSE "Other"

\* pages/CodeHealth.tsx: the raw path, API patterns last, one more API pattern
categorizeFileByPathInline(fp) ==
    IF Includes(fp, P_pages) THEN "Pages"
    ELSE IF Includes(fp, P_components) THEN "Components"
    ELSE IF Includes(fp, P_utils) \/ Includes(fp, P_src_utils) THEN "UI Files"
    ELSE IF \/ Includes(fp, P_slash_apis)
            \/ Includes(fp, P_slash_api)
            \/ Includes(fp, P_src_app_apis) THEN "API Files"
    ELSE "Other"

CatImpls == {"catPage", "catUtils", "catInline"}

(***************************************************************************)
(* SpecCat: one filepath, categorised by each implementation; a second     *)
(* call of an implementation categorises the same path again               *)
(***************************************************************************)
InitCat ==
    /\ filepath \in Paths(MaxLeadingSlashes, MaxDirs)
    /\ category = [i \in CatImpls |-> "none"]
    /\ calls = {}
    /\ file = Idle /\ avgScore = Idle /\ healthHistory = Idle
    /\ allFiles = Idle /\ allFilesUtils = Idle /\ fileTrends = Idle
    /\ selectedComponent = Idle /\ sections = Idle
    /\ PageIdle

CatFrame == UNCHANGED <<filepath, file, avgScore, healthHistory, allFiles,
                        allFilesUtils, fileTrends, selectedComponent, sections,
                          pageVars, taskVars, severityVars>>

CallCategorizePage ==
    /\ category' = [category EXCEPT !["catPage"] = categorizeFileByPath(filepath)]
    /\ calls' = calls \cup {"catPage"}
    /\ CatFrame

CallCategorizeUtils ==
    /\ category' = [category EXCEPT !["catUtils"] = categorizeFileByPathUtils(filepath)]
    /\ calls' = calls \cup {"catUtils"}
    /\ CatFrame

CallCategorizeInline ==
    /\ category' = [category EXCEPT !["catInline"] = categorizeFileByPathInline(filepath)]
    /\ calls' = calls \cup {"catInline"}
    /\ CatFrame

NextCat == CallCategorizePage \/ CallCategorizeUtils \/ CallCategorizeInline

SpecCat == InitCat /\ [][NextCat]_vars

\* the patterns of the part_000 implementation, tried on the normalized path
NoPatternPage(fp) ==
    LET n == StripLeadingSlashes(fp)
    IN  /\ ~IsApiPath(n)
        /\ ~Includes(n, P_pages) /\ ~Includes(n, P_components)
        /\ ~Includes(n, P_utils) /\ ~Includes(n, P_src_utils)

\* the patterns of the codeHealthUtils.tsx implementation, tried on the raw path
NoPatternUtils(fp) ==
    /\ ~Includes(fp, P_pages) /\ ~Includes(fp, P_components)
    /\ ~Includes(fp, P_utils) /\ ~Includes(fp, P_src_utils)
    /\ ~Includes(fp, P_slash_apis) /\ ~Includes(fp, P_slash_api)

\* C6: categorizeFileByPath (part_000 and codeHealthUtils.tsx) is total and
\* deterministic: every filepath gets exactly one of the five labels, a path that
\* matches no pattern gets Other, and calling it again on the same path returns
\* the same label.
Thm_C6 ==
    /\ [](/\ \A i \in calls \cap {"catPage", "catUtils"} : category[i] \in CategorySet
          /\ "catPage" \in calls /\ NoPatternPage(filepath)
                => category["catPage"] = "Other"
          /\ "catUtils" \in calls /\ NoPatternUtils(filepath)
                => category["catUtils"] = "Other")
    /\ [][\A i \in calls \cap {"catPage", "catUtils"} :
              category'[i] = category[i]]_vars

\* 'ui/Home.tsx' matches nothing and is Other in both implementations
Wit_C6 ==
    /\ filepath = <<"u", "i", "/", "H", "o", "m", "e", ".", "t", "s", "x">>
    /\ {"catPage", "catUtils"} \subseteq calls
    /\ category["catPage"] = "Other"
    /\ category["catUtils"] = "Other"

\* the API patterns that all three implementations test: '/api/' and '/apis/'
NamedApiPath(fp) == Includes(fp, P_slash_api) \/ Includes(fp, P_slash_apis)

\* C7: every implementation of categorizeFileByPath puts API patterns first: a
\* path that matches an API pattern is API Files even when it also contains
\* '/pages/', '/components/' or '/utils/'. Stated for the patterns '/api/' and
\* '/apis/', which every implementation tests.
Cex_C7 ==
    \A i \in calls \cap CatImpls :
        NamedApiPath(filepath) => category[i] = "API Files"

\* the API patterns of either of the two implementations named by C8
AnyApiPattern(fp) ==
    \/ IsApiPath(StripLeadingSlashes(fp))
    \/ Includes(fp, P_slash_apis)
    \/ Includes(fp, P_slash_api)

\* the category of a path that is not an API path, by the first special segment
NonApiCategory(fp) ==
    IF Includes(fp, P_pages) THEN "Pages"
    ELSE IF Includes(fp, P_components) THEN "Components"
    ELSE IF Includes(fp, P_utils) THEN "UI Files"
    ELSE "Other"

\* C8: for a filepath that is not an API path, categorizeFileByPath (part_000 and
\* codeHealthUtils.tsx) returns Pages if the path contains '/pages/', otherwise
\* Components if it contains '/components/', otherwise UI Files if it contains
\* '/utils/', otherwise Other.
Cex_C8 ==
    \A i \in calls \cap {"catPage", "catUtils"} :
        ~AnyApiPattern(filepath) => category[i] = NonApiCategory(filepath)

(***************************************************************************)
(* Snapshot histories                                                      *)
(***************************************************************************)
\* the largest number of snapshots in a fetched history
MaxSnapshots == 3

\* the largest number of file records in a whole history
MaxRecords == 3

\* the components of every snapshot, by position (names unique within a snapshot)
CompNames == <<"Pages", "APIs">>

\* 'ui/pages/A.tsx'
PathA == <<"u", "i", "/", "p", "a", "g", "e", "s", "/", "A", ".", "t", "s", "x">>

\* 'ui/utils/h.ts'
PathH == <<"u", "i", "/", "u", "t", "i", "l", "s", "/", "h", ".", "t", "s">>

\* the filepaths of the modelled histories, in the order a component lists them
HistPaths == <<PathA, PathH>>

\* six sub-scores whose composites are 0, 61 (60.5 rounded up) and 90
ScoreShapes == {
    <<0, 0, 0, 0, 0, 0>>,
    <<60, 60, 60, 60, 60, 63>>,
    <<90, 90, 90, 90, 90, 90>>}

MkFile(path, shape) ==
    [filepath |-> path,
     size_score |-> shape[1],
     complexity_score |-> shape[2],
     duplication_score |-> shape[3],
     function_length_score |-> shape[4],
     comment_density_score |-> shape[5],
     naming_convention_score |-> shape[6]]

\* a slot <<snapshot, component, path>> holds at most one file record, so a
\* filepath is unique within a component and may recur across components and
\* across snapshots
Slots(s) == (1..s) \X (1..Len(CompNames)) \X (1..Len(HistPaths))

\* the files of component c of snapshot i, given the occupied slots and their shapes
FilesOf(i, c, shapeOf) ==
    LET RECURSIVE From(_)
        From(p) ==
            IF p > Len(HistPaths) THEN <<>>
            ELSE (IF <<i, c, p>> \in DOMAIN shapeOf
                  THEN <<MkFile(HistPaths[p], shapeOf[<<i, c, p>>])>>
                  ELSE <<>>) \o From(p + 1)
    IN  From(1)

\* the history of s snapshots with the given occupied slots
MkHistory(s, shapeOf) ==
    [i \in 1..s |->
        [results |->
            [components |->
                [c \in 1..Len(CompNames) |->
                    [name |-> CompNames[c], files |-> FilesOf(i, c, shapeOf)]]]]]

(***************************************************************************)
(* Objects used as maps (Record<string, ...>) and arrays                   *)
(***************************************************************************)
\* {}
EmptyObject == <<>>

\* m[k] = v
Put(m, k, v) == [x \in DOMAIN m \cup {k} |-> IF x = k THEN v ELSE m[x]]

\* m[k]
Get(m, k) == IF k \in DOMAIN m THEN m[k] ELSE Undefined

\* components.flatMap(component => component.files ...), keeping the owner's name
RECURSIVE FlatFiles(_)
FlatFiles(components) ==
    IF components = <<>> THEN <<>>
    ELSE LET c == Head(components)
         IN  [i \in 1..Len(c.files) |-> [component |-> c.name, file |-> c.files[i]]]
             \o FlatFiles(Tail(components))

\* pairs.forEach(([k, v]) => m[k] = v): a later pair overwrites an earlier one
RECURSIVE PutAll(_, _)
PutAll(m, pairs) ==
    IF pairs = <<>> THEN m
    ELSE PutAll(Put(m, Head(pairs)[1], Head(pairs)[2]), Tail(pairs))

\* mutant: the buckets keep their insertion order
KeepInsertionOrder(s) == s

\* array.sort((a, b) => a.score - b.score): stable, ascending by score
RECURSIVE InsertByScore(_, _)
InsertByScore(sorted, x) ==
    IF sorted = <<>> THEN <<x>>
    ELSE IF sorted[Len(sorted)].score <= x.score THEN Append(sorted, x)
    ELSE Append(InsertByScore(SubSeq(sorted, 1, Len(sorted) - 1), x), sorted[Len(sorted)])

RECURSIVE SortByScore(_)
SortByScore(s) ==
    IF s = <<>> THEN <<>>
    ELSE InsertByScore(SortByScore(SubSeq(s, 1, Len(s) - 1)), s[Len(s)])

\* Object.keys(obj) of a bucket object: the keys in insertion order, which is the
\* order of the literal that initialises allFiles
ObjectKeys(obj) == SelectSeq(Categories, LAMBDA k : k \in DOMAIN obj)

\* Object.entries(obj): the [key, value] pairs in the order of Object.keys
ObjectEntries(obj) ==
    [i \in 1..Len(ObjectKeys(obj)) |-> <<ObjectKeys(obj)[i], obj[ObjectKeys(obj)[i]]>>]

\* mutant: a filepath is taken into a bucket once
RECURSIVE PickOncePerPath(_, _, _)
PickOncePerPath(s, labels, c) ==
    IF s = <<>> THEN <<>>
    ELSE LET rest == PickOncePerPath(SubSeq(s, 1, Len(s) - 1),
                                     SubSeq(labels, 1, Len(s) - 1), c)
             x == s[Len(s)]
         IN  IF labels[Len(s)] = c
                /\ \A i \in 1..Len(rest) : rest[i].filepath # x.filepath
             THEN Append(rest, x)
             ELSE rest

\* the elements of s whose label in labels (same positions) is c, in order
RECURSIVE Pick(_, _, _)
Pick(s, labels, c) ==
    IF s = <<>> THEN <<>>
    ELSE (IF Head(labels) = c THEN <<Head(s)>> ELSE <<>>)
         \o Pick(Tail(s), Tail(labels), c)

(***************************************************************************)
(* getFilesGroupedByType of the two CodeHealth pages                       *)
(***************************************************************************)
\* mutant: the oldest snapshot is taken as the previous one
OldestComponents(history) ==
    IF Len(history) > 1 THEN history[1].results.components ELSE <<>>

\* healthHistory.length > 1 ? healthHistory[healthHistory.length - 2] : null,
\* as the components the previous-score map is built from
PreviousComponents(history) ==
    IF Len(history) > 1 THEN history[Len(history) - 1].results.components ELSE <<>>

\* mutant: a file without a previous score is compared with 0
PreviousOrZero(previousScores, fp, avg) ==
    IF Get(previousScores, fp) = Undefined THEN 0 ELSE Get(previousScores, fp)

\* previousScores[file.filepath] || avgScore
PreviousOrOwn(previousScores, fp, avg) == JsOr(Get(previousScores, fp), avg)

\* the details object of a file view
Details(f) ==
    [size |-> Field(f, "size_score"),
     complexity |-> Field(f, "complexity_score"),
     duplication |-> Field(f, "duplication_score"),
     function_length |-> Field(f, "function_length_score"),
     comment_density |-> Field(f, "comment_density_score"),
     naming_convention |-> Field(f, "naming_convention_score")]

\* { ...file, score, previousScore, scoreChange, component, details }
FileInfo(f, component, avg, previousScores) ==
    LET previousScore == PreviousOrOwn(previousScores, f.filepath, avg)
        added == [score |-> avg,
                  previousScore |-> previousScore,
                  scoreChange |-> JsSub(avg, previousScore),
                  component |-> component,
                  details |-> Details(f)]
    IN  [k \in DOMAIN f \cup DOMAIN added |->
            IF k \in DOMAIN added THEN added[k] ELSE f[k]]

\* the body shared by part_000 and pages/CodeHealth.tsx: avgOf and categoryOf are
\* the page's calculateFileAvgScore and categorizeFileByPath applied to the files
\* of the previous and of the latest snapshot
GroupFiles(latest, prevScoresOfFiles, prevFlat, avgOfLatest, categoryOfLatest) ==
    LET previousScores ==
            PutAll(EmptyObject,
                   [i \in 1..Len(prevFlat) |->
                       <<prevFlat[i].file.filepath, prevScoresOfFiles[i]>>])
        infos == [i \in 1..Len(latest) |->
                     FileInfo(latest[i].file, latest[i].component,
                              avgOfLatest[i], previousScores)]
    IN  [c \in CategorySet |-> SortByScore(Pick(infos, categoryOfLatest, c))]

\* part_000
getFilesGroupedByType(history) ==
    IF Len(history) = 0 THEN EmptyObject
    ELSE LET latest == FlatFiles(history[Len(history)].results.components)
             prevFlat == FlatFiles(PreviousComponents(history))
         IN  GroupFiles(latest,
                 [i \in 1..Len(prevFlat) |-> calculateFileAvgScore(prevFlat[i].file)],
                 prevFlat,
                 [i \in 1..Len(latest) |-> calculateFileAvgScore(latest[i].file)],
                 [i \in 1..Len(latest) |-> categorizeFileByPath(latest[i].file.filepath)])

\* pages/CodeHealth.tsx
getFilesGroupedByTypeInline(history) ==
    IF Len(history) = 0 THEN EmptyObject
    ELSE LET latest == FlatFiles(history[Len(history)].results.components)
             prevFlat == FlatFiles(PreviousComponents(history))
         IN  GroupFiles(latest,
                 [i \in 1..Len(prevFlat) |-> calculateFileAvgScoreInline(prevFlat[i].file)],
                 prevFlat,
                 [i \in 1..Len(latest) |-> calculateFileAvgScoreInline(latest[i].file)],
                 [i \in 1..Len(latest) |->
                     categorizeFileByPathInline(latest[i].file.filepath)])

(***************************************************************************)
(* processFilesData (codeHealthUtils.tsx) and getFilesGroupedByType of the *)
(* CodeHealthHistory page (part_002)                                       *)
(***************************************************************************)
\* processFilesData(currentFiles, previousFiles)
processFilesData(currentFiles, previousFiles) ==
    LET previousScores ==
            PutAll(EmptyObject,
                   [i \in 1..Len(previousFiles) |->
                       <<previousFiles[i].filepath,
                         calculateFileAvgScoreUtils(previousFiles[i])>>])
    IN  [i \in 1..Len(currentFiles) |->
            LET f == currentFiles[i]
                avgScore_ == calculateFileAvgScoreUtils(f)
                previousScore == PreviousOrOwn(previousScores, f.filepath, avgScore_)
            IN  [filepath |-> f.filepath,
                 score |-> avgScore_,
                 previousScore |-> previousScore,
                 scoreChange |-> JsSub(avgScore_, previousScore),
                 issues |-> Get(f, "issues"),
                 details |-> Details(f)]]

\* latestEntry.results.components.flatMap(component =>
\*     processFilesData(component.files, previousFiles).map(... component.name))
RECURSIVE ProcessComponents(_, _)
ProcessComponents(components, previousFiles) ==
    IF components = <<>> THEN <<>>
    ELSE LET c == Head(components)
             processed == processFilesData(c.files, previousFiles)
         IN  [i \in 1..Len(processed) |->
                 [k \in DOMAIN processed[i] \cup {"component"} |->
                     IF k = "component" THEN c.name ELSE processed[i][k]]]
             \o ProcessComponents(Tail(components), previousFiles)

\* part_002
getFilesGroupedByTypeUtils(history) ==
    IF Len(history) = 0 THEN EmptyObject
    ELSE LET prevFlat == FlatFiles(PreviousComponents(history))
             previousFiles == [i \in 1..Len(prevFlat) |-> prevFlat[i].file]
             processedFiles ==
                 ProcessComponents(history[Len(history)].results.components,
                                   previousFiles)
         IN  [c \in CategorySet |->
                 SortByScore(Pick(processedFiles,
                     [i \in 1..Len(processedFiles) |->
                         categorizeFileByPathUtils(processedFiles[i].filepath)],
                     c))]

(***************************************************************************)
(* calculateFileTrends of the two CodeHealth pages                         *)
(***************************************************************************)
\* mutant: the last score is compared with the one before it
TrendOfLastStep(scores) ==
    LET change == scores[Len(scores)] - scores[Len(scores) - 1]
    IN  [trend |-> IF change > 0 THEN "up" ELSE IF change < 0 THEN "down" ELSE "neutral",
         change |-> change]

\* { trend: change > 0 ? 'up' : change < 0 ? 'down' : 'neutral', change }
\* with change = scores[scores.length - 1] - scores[0]
TrendOf(scores) ==
    LET change == JsSub(scores[Len(scores)], scores[1])
    IN  [trend |-> IF change > 0 THEN "up" ELSE IF change < 0 THEN "down" ELSE "neutral",
         change |-> change]

\* fileScores after the three nested forEach loops over the flattened history
RECURSIVE CollectScores(_, _)
CollectScores(fileScores, pairs) ==
    IF pairs = <<>> THEN fileScores
    ELSE LET fp == Head(pairs)[1]
             sofar == IF fp \in DOMAIN fileScores THEN fileScores[fp] ELSE <<>>
         IN  CollectScores(Put(fileScores, fp, Append(sofar, Head(pairs)[2])), Tail(pairs))

\* every file record of the history, oldest snapshot first
RECURSIVE AllFlat(_)
AllFlat(history) ==
    IF history = <<>> THEN <<>>
    ELSE FlatFiles(Head(history).results.components) \o AllFlat(Tail(history))

\* the body shared by part_000 and pages/CodeHealth.tsx: scoresOf are the page's
\* calculateFileAvgScore of the flattened file records
TrendsFrom(history, flat, scoresOf) ==
    IF Len(history) <= 1 THEN EmptyObject
    ELSE LET fileScores ==
                 CollectScores(EmptyObject,
                     [i \in 1..Len(flat) |-> <<flat[i].file.filepath, scoresOf[i]>>])
         IN  [fp \in {p \in DOMAIN fileScores : Len(fileScores[p]) > 1} |->
                 TrendOf(fileScores[fp])]

\* part_000
calculateFileTrends(history) ==
    LET flat == AllFlat(history)
    IN  TrendsFrom(history, flat,
                   [i \in 1..Len(flat) |-> calculateFileAvgScore(flat[i].file)])

\* pages/CodeHealth.tsx
calculateFileTrendsInline(history) ==
    LET flat == AllFlat(history)
    IN  TrendsFrom(history, flat,
                   [i \in 1..Len(flat) |-> calculateFileAvgScoreInline(flat[i].file)])


(***************************************************************************)
(* The category sections of the pages: SectionAccordion (part_002 page),   *)
(* the overview tab and the files tab (CodeHealth pages)                   *)
(***************************************************************************)
\* files.reduce((sum, file) => sum + get(file), 0), for the values already read
RECURSIVE SumOf(_)
SumOf(values) ==
    IF values = <<>> THEN 0 ELSE JsAdd(SumOf(SubSeq(values, 1, Len(values) - 1)),
                                       values[Len(values)])

\* Math.round(sum / files.length); 0 / 0 is NaN
MathRoundMean(sum, length) == IF length = 0 THEN NaN ELSE MathRoundDiv(sum, length)

\* mutant: the previous score is not read
PreviousIgnored(f) == f.score

\* file.previousScore || file.score
PreviousOrScore(f) == JsOr(Get(f, "previousScore"), f.score)

\* mutant: entries without files are rendered as well
SkipNone(rendered) == rendered

\* if (files.length === 0) return null: the entries that render something
SkipEmpty(rendered) == SelectSeq(rendered, LAMBDA r : Len(r.files) # 0)

\* SectionAccordion: one item per bucket with files
SectionAccordion(groupedFiles) ==
    LET entries == ObjectEntries(groupedFiles)
    IN  SkipEmpty(
          [i \in 1..Len(entries) |->
            LET files == entries[i][2]
                sectionAvgScore ==
                    MathRoundMean(SumOf([j \in 1..Len(files) |-> files[j].score]),
                                  Len(files))
                sectionAvgPrevScore ==
                    MathRoundMean(SumOf([j \in 1..Len(files) |-> PreviousOrScore(files[j])]),
                                  Len(files))
            IN  [section |-> entries[i][1],
                 files |-> files,
                 sectionAvgScore |-> sectionAvgScore,
                 sectionAvgPrevScore |-> sectionAvgPrevScore,
                 sectionScoreChange |-> JsSub(sectionAvgScore, sectionAvgPrevScore)]])

\* overview tab, "File Health by Category": one item per bucket with files
OverviewTab(groupedFiles) ==
    LET entries == ObjectEntries(groupedFiles)
    IN  SkipEmpty(
          [i \in 1..Len(entries) |->
            LET files == entries[i][2]
            IN  [section |-> entries[i][1],
                 files |-> files,
                 sectionAvgScore |->
                     MathRoundMean(SumOf([j \in 1..Len(files) |-> files[j].score]),
                                   Len(files))]])

\* selectedComponent ? files.filter(f => f.component === selectedComponent) : files
FilesToShow(files, selected) ==
    IF selected = "" THEN files
    ELSE SelectSeq(files, LAMBDA f : f.component = selected)

\* files tab, "File Details": one block per bucket with files to show
FilesTab(groupedFiles, selected) ==
    LET entries == ObjectEntries(groupedFiles)
    IN  SkipEmpty(
          [i \in 1..Len(entries) |->
            [section |-> entries[i][1],
             files |-> FilesToShow(entries[i][2], selected)]])

\* what a CodeHealth page renders per category
SectionsOfCodeHealth(groupedFiles, selected) ==
    [overview |-> OverviewTab(groupedFiles), files |-> FilesTab(groupedFiles, selected)]

\* what the CodeHealthHistory page renders per category
SectionsOfCodeHealthHistory(groupedFiles) ==
    [accordion |-> SectionAccordion(groupedFiles)]
(***************************************************************************)
(* Properties of the derived views                                         *)
(***************************************************************************)
\* a page has rendered
Rendered == calls # {}

\* the grouped files of the page that rendered
Grouped == IF calls = {"CodeHealthHistory"} THEN allFilesUtils ELSE allFiles

\* the file views of the page that rendered
Views == UNION {{Grouped[c][i] : i \in 1..Len(Grouped[c])} : c \in DOMAIN Grouped}

\* the file records of a snapshot with the given filepath, in processing order
Occurrences(entry, fp) ==
    LET flat == FlatFiles(entry.results.components)
        RECURSIVE Keep(_)
        Keep(i) == IF i > Len(flat) THEN <<>>
                   ELSE (IF flat[i].file.filepath = fp THEN <<flat[i].file>> ELSE <<>>)
                        \o Keep(i + 1)
    IN  Keep(1)

\* the snapshots (by index) that contain the filepath
SnapshotsWith(fp) ==
    {i \in 1..Len(healthHistory) : Occurrences(healthHistory[i], fp) # <<>>}

\* the filepaths of the history
PathsOfHistory ==
    {HistPaths[p] : p \in 1..Len(HistPaths)}

Max(S) == CHOOSE x \in S : \A y \in S : y <= x

Min(S) == CHOOSE x \in S : \A y \in S : x <= y

Last(s) == s[Len(s)]

\* C2: a file of the latest snapshot that is present in the immediately
\* preceding snapshot has previousScore equal to its composite score there and
\* scoreChange equal to its current composite score minus that score.
Cex_C2 ==
    Rendered /\ Len(healthHistory) >= 2 =>
        \A v \in Views :
            LET before == Occurrences(healthHistory[Len(healthHistory) - 1], v.filepath)
            IN  before # <<>> =>
                    \E i \in 1..Len(before) :
                        /\ v.previousScore = Composite(before[i])
                        /\ v.scoreChange = v.score - Composite(before[i])

\* C3: a file of the latest snapshot whose filepath does not occur in the
\* previous snapshot, or that has no previous snapshot, has previousScore equal
\* to its own score and scoreChange 0, both numbers.
Thm_C3 ==
    Rendered /\ Len(healthHistory) >= 1 =>
        \A v \in Views :
            (\/ Len(healthHistory) = 1
             \/ Occurrences(healthHistory[Len(healthHistory) - 1], v.filepath) = <<>>)
            => /\ IsNumber(v.previousScore) /\ IsNumber(v.scoreChange)
               /\ v.previousScore = v.score
               /\ v.scoreChange = 0

\* the previous snapshot holds only 'ui/utils/h.ts'; 'ui/pages/A.tsx' is new in
\* the latest snapshot with score 61
Wit_C3 ==
    /\ Rendered
    /\ Len(healthHistory) = 2
    /\ Occurrences(healthHistory[1], PathA) = <<>>
    /\ Occurrences(healthHistory[1], PathH) # <<>>
    /\ \E v \in Views :
          v.filepath = PathA /\ v.score = 61 /\ v.previousScore = 61 /\ v.scoreChange = 0

\* C4: previousScore is the file's composite score in the nearest earlier
\* snapshot that contains the filepath, skipping snapshots without it. Stated
\* here for nearest earlier scores other than 0, which leaves the score-0 case
\* of C2 aside.
Cex_C4 ==
    Rendered /\ Len(healthHistory) >= 1 =>
        \A v \in Views :
            LET earlier == SnapshotsWith(v.filepath) \ {Len(healthHistory)}
            IN  earlier # {} =>
                    LET before == Occurrences(healthHistory[Max(earlier)], v.filepath)
                    IN  Composite(Last(before)) # 0 =>
                            \E i \in 1..Len(before) :
                                v.previousScore = Composite(before[i])

\* C4 as amended: previousScore comes from the immediately preceding snapshot
\* alone. When that snapshot contains the filepath with a composite score other
\* than 0 (the last occurrence, if several), previousScore is that score; in
\* every other case (no preceding snapshot, filepath absent from it even if an
\* earlier snapshot contains it, or a score of 0 there) previousScore equals score.
Thm_C4 ==
    Rendered /\ Len(healthHistory) >= 1 =>
        \A v \in Views :
            LET before == IF Len(healthHistory) = 1 THEN <<>>
                          ELSE Occurrences(healthHistory[Len(healthHistory) - 1],
                                           v.filepath)
            IN  IF before # <<>> /\ Composite(Last(before)) # 0
                THEN v.previousScore = Composite(Last(before))
                ELSE v.previousScore = v.score

\* 'ui/pages/A.tsx' scores 90 in snapshot 1, is absent from snapshot 2 and scores
\* 61 in snapshot 3: its previousScore is 61, not 90
Wit_C4 ==
    /\ Rendered
    /\ Len(healthHistory) = 3
    /\ Occurrences(healthHistory[1], PathA) # <<>>
    /\ Composite(Last(Occurrences(healthHistory[1], PathA))) = 90
    /\ Occurrences(healthHistory[2], PathA) = <<>>
    /\ \E v \in Views : v.filepath = PathA /\ v.score = 61 /\ v.previousScore = 61

\* the trend that C9 gives a filepath seen in at least two snapshots
ExpectedTrend(fp) ==
    LET first == Occurrences(healthHistory[Min(SnapshotsWith(fp))], fp)[1]
        last == Last(Occurrences(healthHistory[Max(SnapshotsWith(fp))], fp))
        change == Composite(last) - Composite(first)
    IN  [trend |-> IF change > 0 THEN "up" ELSE IF change < 0 THEN "down" ELSE "neutral",
         change |-> change]

\* the pages that compute trends
TrendsRendered == calls # {} /\ calls \subseteq {"CodeHealth", "CodeHealthInline"}

\* C9: for a filepath observed in at least two snapshots, calculateFileTrends
\* yields change = (composite score in the last snapshot containing it) minus
\* (composite score in the first snapshot containing it), whatever lies between,
\* and trend up, down or neutral by the sign of change. With several occurrences
\* in one snapshot the first one of the first snapshot and the last one of the
\* last snapshot count.
Thm_C9 ==
    TrendsRendered =>
        \A fp \in PathsOfHistory :
            Cardinality(SnapshotsWith(fp)) >= 2 =>
                /\ fp \in DOMAIN fileTrends
                /\ fileTrends[fp] = ExpectedTrend(fp)

\* 'ui/pages/A.tsx' scores 0, 90, 61 in three snapshots: up by 61
Wit_C9 ==
    /\ TrendsRendered
    /\ Len(healthHistory) = 3
    /\ \A i \in 1..3 : Len(Occurrences(healthHistory[i], PathA)) = 1
    /\ Composite(Occurrences(healthHistory[1], PathA)[1]) = 0
    /\ Composite(Occurrences(healthHistory[2], PathA)[1]) = 90
    /\ Composite(Occurrences(healthHistory[3], PathA)[1]) = 61
    /\ PathA \in DOMAIN fileTrends
    /\ fileTrends[PathA] = [trend |-> "up", change |-> 61]

\* C10: a filepath that appears in fewer than two snapshots, in any number of
\* components of the one snapshot that contains it, has no trend entry.
Cex_C10 ==
    TrendsRendered =>
        \A fp \in PathsOfHistory :
            Cardinality(SnapshotsWith(fp)) < 2 => fp \notin DOMAIN fileTrends

(***************************************************************************)
(* Properties of the buckets                                               *)
(***************************************************************************)
\* C11: for a non-empty history getFilesGroupedByType returns the buckets keyed
\* in the order Pages, Components, UI Files, API Files, Other, and in every
\* bucket adjacent files a, b satisfy a.score <= b.score.
Thm_C11 ==
    Rendered /\ Len(healthHistory) >= 1 =>
        /\ ObjectKeys(Grouped) = <<"Pages", "Components", "UI Files", "API Files", "Other">>
        /\ \A c \in DOMAIN Grouped :
              \A i \in 1..(Len(Grouped[c]) - 1) :
                  /\ IsNumber(Grouped[c][i].score)
                  /\ IsNumber(Grouped[c][i + 1].score)
                  /\ Grouped[c][i].score <= Grouped[c][i + 1].score

\* the latest snapshot lists 'ui/pages/A.tsx' with score 90 in component Pages and
\* with score 0 in component APIs (processed later): the bucket Pages holds the
\* record of APIs first
Wit_C11 ==
    /\ Rendered
    /\ Len(healthHistory) >= 1
    /\ Len(Grouped["Pages"]) = 2
    /\ Grouped["Pages"][1].component = "APIs" /\ Grouped["Pages"][1].score = 0
    /\ Grouped["Pages"][2].component = "Pages" /\ Grouped["Pages"][2].score = 90

\* the lists of sections a page rendered, each with the buckets it was built from
\* (after the selected-component filter, where the list applies it)
RenderedLists ==
    IF calls = {"CodeHealthHistory"}
    THEN {<<sections.accordion, allFilesUtils>>}
    ELSE {<<sections.overview, allFiles>>,
          <<sections.files,
            [c \in DOMAIN allFiles |-> FilesToShow(allFiles[c], selectedComponent)]>>}

\* the average a rendered section shows, if it shows one
ShownAverages(r) ==
    {r[k] : k \in DOMAIN r \cap {"sectionAvgScore", "sectionAvgPrevScore",
                                 "sectionScoreChange"}}

\* C12: a bucket without files, whether no file of the latest snapshot has the
\* category or the selected-component filter removed them all, is not rendered:
\* no section carries its name, every rendered section has files, and no
\* rendered average is NaN.
Thm_C12 ==
    Rendered /\ Len(healthHistory) >= 1 =>
        \A l \in RenderedLists :
            /\ \A c \in DOMAIN l[2] :
                  l[2][c] = <<>> => \A i \in 1..Len(l[1]) : l[1][i].section # c
            /\ \A i \in 1..Len(l[1]) :
                  /\ l[1][i].files # <<>>
                  /\ \A a \in ShownAverages(l[1][i]) : IsNumber(a)

\* component APIs is selected; the bucket Pages holds files of component Pages
\* only and is not rendered in the files tab, the bucket UI Files is; the
\* overview tab renders both and never the bucket Other
Wit_C12 ==
    /\ calls = {"CodeHealth"}
    /\ Len(healthHistory) >= 1
    /\ selectedComponent = "APIs"
    /\ allFiles["Pages"] # <<>>
    /\ allFiles["Other"] = <<>>
    /\ Len(sections.files) = 1 /\ sections.files[1].section = "UI Files"
    /\ Len(sections.overview) = 2

\* the sum of a sequence of numbers
RECURSIVE Sum(_)
Sum(values) == IF values = <<>> THEN 0 ELSE Head(values) + Sum(Tail(values))

\* a file view's previousScore, or its own score where previousScore is missing
PreviousOrMissing(v) ==
    IF "previousScore" \in DOMAIN v /\ IsNumber(v.previousScore)
    THEN v.previousScore ELSE v.score

\* C13: for every bucket with files SectionAccordion renders avgScore = round(mean
\* of score), avgPreviousScore = round(mean of previousScore, a file's own score
\* standing in for a missing previousScore) and change = avgScore minus
\* avgPreviousScore.
Thm_C13 ==
    calls = {"CodeHealthHistory"} =>
        \A c \in DOMAIN allFilesUtils :
            LET files == allFilesUtils[c]
            IN  files # <<>> =>
                  \E i \in 1..Len(sections.accordion) :
                      LET item == sections.accordion[i]
                      IN  /\ item.section = c
                          /\ IsRounded(item.sectionAvgScore,
                                 Sum([j \in 1..Len(files) |-> files[j].score]),
                                 Len(files))
                          /\ IsRounded(item.sectionAvgPrevScore,
                                 Sum([j \in 1..Len(files) |-> PreviousOrMissing(files[j])]),
                                 Len(files))
                          /\ item.sectionScoreChange =
                                 item.sectionAvgScore - item.sectionAvgPrevScore

\* the bucket Pages holds 'ui/pages/A.tsx' twice, with scores 0 and 61 (mean 30.5)
\* and previousScore 90 each
Wit_C13 ==
    /\ calls = {"CodeHealthHistory"}
    /\ Len(healthHistory) >= 1
    /\ Len(allFilesUtils["Pages"]) = 2
    /\ \E i \in 1..Len(sections.accordion) :
          /\ sections.accordion[i].section = "Pages"
          /\ sections.accordion[i].sectionAvgScore = 31
          /\ sections.accordion[i].sectionAvgPrevScore = 90
          /\ sections.accordion[i].sectionScoreChange = -59


\* C21: when a filepath occurs in several components of the previous snapshot,
\* the previous-score index holds the composite score of the last occurrence
\* processed (components in order, files in order within a component), and that
\* value is the previousScore of every occurrence of the filepath in the latest
\* snapshot.
Cex_C21 ==
    Rendered /\ Len(healthHistory) >= 2 =>
        \A v \in Views :
            LET before == Occurrences(healthHistory[Len(healthHistory) - 1], v.filepath)
            IN  Len(before) >= 2 =>
                    /\ v.previousScore = Composite(Last(before))
                    /\ v.scoreChange = v.score - Composite(Last(before))

\* the categorizeFileByPath of the page that rendered
CategoryOfPage(fp) ==
    IF calls = {"CodeHealthHistory"} THEN categorizeFileByPathUtils(fp)
    ELSE IF calls = {"CodeHealthInline"} THEN categorizeFileByPathInline(fp)
    ELSE categorizeFileByPath(fp)

\* the positions of bucket c that hold the record f of the component named name
PlacesIn(c, name, f) ==
    {j \in 1..Len(Grouped[c]) :
        /\ Grouped[c][j].filepath = f.filepath
        /\ Grouped[c][j].component = name
        /\ Grouped[c][j].details = Details(f)}

\* the number of file records of a snapshot
RecordsOf(entry) ==
    Sum([c \in 1..Len(entry.results.components) |->
              Len(entry.results.components[c].files)])

\* C25: getFilesGroupedByType partitions the latest snapshot: every (component,
\* file) occurrence appears exactly once across the five buckets, in the bucket
\* named by categorizeFileByPath of its filepath, carrying its owning component's
\* name; nothing is dropped or duplicated, so the bucket sizes sum to the number
\* of file records of the latest snapshot.
Thm_C25 ==
    Rendered /\ Len(healthHistory) >= 1 =>
        LET components == Last(healthHistory).results.components
        IN  /\ DOMAIN Grouped = CategorySet
            /\ \A c \in 1..Len(components) : \A i \in 1..Len(components[c].files) :
                  LET f == components[c].files[i]
                  IN  \A b \in CategorySet :
                          Cardinality(PlacesIn(b, components[c].name, f)) =
                              IF b = CategoryOfPage(f.filepath) THEN 1 ELSE 0
            /\ Sum([k \in 1..Len(Categories) |-> Len(Grouped[Categories[k]])])
                   = RecordsOf(Last(healthHistory))

\* the latest snapshot lists 'ui/pages/A.tsx' in both components and
\* 'ui/utils/h.ts' in one: bucket Pages holds two views, UI Files one
Wit_C25 ==
    /\ Rendered
    /\ Len(healthHistory) >= 1
    /\ RecordsOf(Last(healthHistory)) = 3
    /\ Len(Occurrences(Last(healthHistory), PathA)) = 2
    /\ Len(Grouped["Pages"]) = 2
    /\ Len(Grouped["UI Files"]) = 1
    /\ {Grouped["Pages"][j].component : j \in 1..2} = {"Pages", "APIs"}

\* C26: every file view produced from sub-scores in [0,100] satisfies score =
\* previousScore + scoreChange, with score and previousScore integers in
\* [0,100] and scoreChange an integer in [-100,100]; previousScore is 0 only if
\* score is 0.
Thm_C26 ==
    Rendered =>
        \A v \in Views :
            /\ v.score \in 0..100
            /\ v.previousScore \in 0..100
            /\ v.scoreChange \in -100..100
            /\ v.score = v.previousScore + v.scoreChange
            /\ (v.previousScore = 0 => v.score = 0)

\* a file that fell from 90 to 61, and one that scores 0 as it did before
Wit_C26 ==
    /\ Rendered
    /\ \E v \in Views : v.score = 61 /\ v.previousScore = 90 /\ v.scoreChange = -29
    /\ \E v \in Views : v.score = 0 /\ v.previousScore = 0 /\ v.scoreChange = 0
(***************************************************************************)
(* SpecHist: one fetched history; a page derives its views from it on      *)
(* every render pass. A behaviour follows one of the three pages. The       *)
(* functions are applied to every history, the empty one included, which   *)
(* they handle by their own early return.                                  *)
(***************************************************************************)
\* the largest number of snapshots of a history whose sections are browsed
MaxViewSnapshots == 1

\* healthHistory after a fetch of at most maxSnapshots snapshots; the page has not
\* rendered it yet and no component is selected
FetchedHistory(maxSnapshots) ==
    /\ \E s \in 0..maxSnapshots :
         \E occupied \in {o \in SUBSET Slots(s) : Cardinality(o) <= MaxRecords} :
           \E shapeOf \in [occupied -> ScoreShapes] :
              healthHistory = MkHistory(s, shapeOf)
    /\ allFiles = EmptyObject /\ allFilesUtils = EmptyObject /\ fileTrends = EmptyObject
    /\ selectedComponent = "" /\ sections = EmptyObject
    /\ calls = {}
    /\ file = Idle /\ avgScore = Idle /\ filepath = Idle /\ category = Idle
    /\ PageIdle

InitHist == FetchedHistory(MaxSnapshots)

HistFrame ==
    UNCHANGED <<healthHistory, file, avgScore, filepath, category, pageVars, taskVars,
                severityVars>>

\* part_000: const groupedFiles = getFilesGroupedByType();
\*           const fileTrends = calculateFileTrends();
\* and the sections of the overview and files tabs
RenderCodeHealth ==
    /\ calls \subseteq {"CodeHealth"}
    /\ allFiles' = getFilesGroupedByType(healthHistory)
    /\ fileTrends' = calculateFileTrends(healthHistory)
    /\ sections' = SectionsOfCodeHealth(allFiles', selectedComponent)
    /\ calls' = {"CodeHealth"}
    /\ UNCHANGED <<allFilesUtils, selectedComponent>>
    /\ HistFrame

\* pages/CodeHealth.tsx: the same
RenderCodeHealthInline ==
    /\ calls \subseteq {"CodeHealthInline"}
    /\ allFiles' = getFilesGroupedByTypeInline(healthHistory)
    /\ fileTrends' = calculateFileTrendsInline(healthHistory)
    /\ sections' = SectionsOfCodeHealth(allFiles', selectedComponent)
    /\ calls' = {"CodeHealthInline"}
    /\ UNCHANGED <<allFilesUtils, selectedComponent>>
    /\ HistFrame

\* part_002: <SectionAccordion sections={getFilesGroupedByType()} ... />
RenderCodeHealthHistory ==
    /\ calls \subseteq {"CodeHealthHistory"}
    /\ allFilesUtils' = getFilesGroupedByTypeUtils(healthHistory)
    /\ sections' = SectionsOfCodeHealthHistory(allFilesUtils')
    /\ calls' = {"CodeHealthHistory"}
    /\ UNCHANGED <<allFiles, fileTrends, selectedComponent>>
    /\ HistFrame

NextHist == RenderCodeHealth \/ RenderCodeHealthInline \/ RenderCodeHealthHistory

SpecHist == InitHist /\ [][NextHist]_vars

(***************************************************************************)
(* SpecView: a rendered CodeHealth page on which the user selects          *)
(* components; every selection renders the page again                      *)
(***************************************************************************)
InitView == FetchedHistory(MaxViewSnapshots)

\* part_000: onClick={() => setSelectedComponent(
\*     component.name === selectedComponent ? "" : component.name)}
\* on a component card of the latest snapshot, and the render that follows
SelectComponent ==
    /\ calls = {"CodeHealth"}
    /\ Len(healthHistory) > 0
    /\ \E c \in 1..Len(Last(healthHistory).results.components) :
          LET name == Last(healthHistory).results.components[c].name
          IN  selectedComponent' = IF name = selectedComponent THEN "" ELSE name
    /\ allFiles' = getFilesGroupedByType(healthHistory)
    /\ fileTrends' = calculateFileTrends(healthHistory)
    /\ sections' = SectionsOfCodeHealth(allFiles', selectedComponent')
    /\ UNCHANGED <<allFilesUtils, calls>>
    /\ HistFrame

\* pages/CodeHealth.tsx: onClick={() => setSelectedComponent(component.name)}
SelectComponentInline ==
    /\ calls = {"CodeHealthInline"}
    /\ Len(healthHistory) > 0
    /\ \E c \in 1..Len(Last(healthHistory).results.components) :
          selectedComponent' = Last(healthHistory).results.components[c].name
    /\ allFiles' = getFilesGroupedByTypeInline(healthHistory)
    /\ fileTrends' = calculateFileTrendsInline(healthHistory)
    /\ sections' = SectionsOfCodeHealth(allFiles', selectedComponent')
    /\ UNCHANGED <<allFilesUtils, calls>>
    /\ HistFrame

NextView ==
    \/ RenderCodeHealth \/ RenderCodeHealthInline \/ RenderCodeHealthHistory
    \/ SelectComponent \/ SelectComponentInline

SpecView == InitView /\ [][NextView]_vars

(***************************************************************************)
(* The page lifecycle: what the backend answers                            *)
(***************************************************************************)
\* the largest number of snapshots the backend returns
MaxBackendSnapshots == 3

\* how many times runNewAnalysis is started in a behaviour
MaxRuns == 2

\* the score shapes, the issue lists and the recommendation lists that the
\* snapshots of the backend cycle through
ShapeSeq == <<
    <<0, 0, 0, 0, 0, 0>>,
    <<60, 60, 60, 60, 60, 63>>,
    <<90, 90, 90, 90, 90, 90>> >>

IssueSeq == <<
    <<"Large file">>,
    <<>>,
    <<"Complex logic", "Inconsistent naming">> >>

RecommendationSeq == <<
    <<"Split large files", "Add comments">>,
    <<>>,
    <<"Add comments", "Split large files", "Reduce duplication">> >>

\* a file record with its issues
FileWithIssues(path, k) ==
    LET f == MkFile(path, ShapeSeq[k])
    IN  [x \in DOMAIN f \cup {"issues"} |-> IF x = "issues" THEN IssueSeq[k] ELSE f[x]]

\* the i-th snapshot of the backend
BackendEntry(i) ==
    [results |->
        [components |-> <<
            [name |-> "Pages",
             files |-> <<FileWithIssues(PathA, (i % 3) + 1),
                         FileWithIssues(PathH, ((i + 1) % 3) + 1)>>],
            [name |-> "APIs",
             files |-> IF i % 2 = 0 THEN <<FileWithIssues(PathA, ((i + 2) % 3) + 1)>>
                       ELSE <<>>] >>,
         recommendations |-> RecommendationSeq[(i % 3) + 1]]]

\* the history of the first n snapshots
BackendHistory(n) == [i \in 1..n |-> BackendEntry(i)]

\* what get_health_check_history may return
BackendHistories == {BackendHistory(n) : n \in 0..MaxBackendSnapshots}

(***************************************************************************)
(* The page lifecycle: what a page derives and shows                       *)
(***************************************************************************)
PageNames == {"CodeHealth", "CodeHealthInline", "CodeHealthHistory"}

\* mutant: the recommendations of the oldest snapshot
getOldestRecommendations(history) ==
    IF Len(history) = 0 THEN <<>> ELSE history[1].results.recommendations

\* getRecommendations, the same in the three pages
getRecommendations(history) ==
    IF Len(history) = 0 THEN <<>> ELSE history[Len(history)].results.recommendations

\* Object.values(groupedFiles).flat(): a new array of the file views, bucket by
\* bucket
Flat(groupedFiles) ==
    LET entries == ObjectEntries(groupedFiles)
        RECURSIVE From(_)
        From(i) == IF i > Len(entries) THEN <<>> ELSE entries[i][2] \o From(i + 1)
    IN  From(1)

\* array.sort((a, b) => b.issues.length - a.issues.length): stable, most issues first
RECURSIVE SortByIssues(_)
SortByIssues(s) ==
    IF s = <<>> THEN <<>>
    ELSE LET x == s[Len(s)]
             sorted == SortByIssues(SubSeq(s, 1, Len(s) - 1))
             RECURSIVE Insert(_)
             Insert(t) ==
                 IF t = <<>> THEN <<x>>
                 ELSE IF Len(t[Len(t)].issues) >= Len(x.issues) THEN Append(t, x)
                 ELSE Append(Insert(SubSeq(t, 1, Len(t) - 1)), t[Len(t)])
         IN  Insert(sorted)

\* Object.values(groupedFiles).flat().sort(...).slice(0, 5)
TopIssues(groupedFiles) ==
    LET sorted == SortByIssues(Flat(groupedFiles))
    IN  SubSeq(sorted, 1, IF Len(sorted) < 5 THEN Len(sorted) ELSE 5)

\* mutant: the latest snapshot's files are ordered in place by the bucket sort
HistoryWithSortedFiles(history) ==
    IF Len(history) = 0 THEN history
    ELSE [i \in 1..Len(history) |->
            IF i < Len(history) THEN history[i]
            ELSE [results |->
                    [components |->
                        [c \in 1..Len(history[i].results.components) |->
                            LET comp == history[i].results.components[c]
                                scored == [j \in 1..Len(comp.files) |->
                                             [score |-> calculateFileAvgScore(comp.files[j]),
                                              file |-> comp.files[j]]]
                                sorted == SortByScore(scored)
                            IN  [name |-> comp.name,
                                 files |-> [j \in 1..Len(sorted) |-> sorted[j].file]]],
                     recommendations |-> history[i].results.recommendations]]]

\* healthHistory after a render pass: the aggregations read the snapshots with
\* forEach and flatMap, build new objects ({ ...file, ... }) and new arrays, and
\* sort only those
HistoryAfterRender(history) == history

\* mutant: an empty history is rendered like any other
ViewOfWithoutNoData(page, isLoading, message, history) ==
    IF isLoading THEN "loading" ELSE IF message # "" THEN "error" ELSE "main"

\* the render gates: spinner, error alert, 'No Data Available' (CodeHealth pages
\* only), else the page itself
ViewOf(page, isLoading, message, history) ==
    IF isLoading THEN "loading"
    ELSE IF message # "" THEN "error"
    ELSE IF page # "CodeHealthHistory" /\ Len(history) = 0 THEN "nodata"
    ELSE "main"

\* the page that is mounted
Page == CHOOSE p \in PageNames : calls = {p}

View == ViewOf(Page, loading, error, healthHistory)

\* mutant: the error alert comes with a Run button
RunOfferedAfterError(view) == view \in {"nodata", "main", "error"}

\* mutant: a Run button is rendered in every view
RunAlwaysOffered(view) == TRUE

\* a button with onClick={runNewAnalysis} is rendered
RunOffered(view) == view \in {"nodata", "main"}

\* mutant: every failure reports the message of the history fetch
ErrorMessageOfFetch(op) == "Failed to load code health history data"

\* the message of the catch block of an operation
ErrorMessage(op) ==
    IF op = "fetchCodeHealthHistory" THEN "Failed to load code health history data"
    ELSE "Failed to run code health analysis"

(***************************************************************************)
(* SpecPage: a page from its mount on; every state change renders it again *)
(***************************************************************************)
\* useState initial values, and the effect of the mount: fetchCodeHealthHistory
\* has called setLoading(true) and awaits get_health_check_history
InitPage ==
    /\ calls \in {{p} : p \in PageNames}
    /\ healthHistory = <<>>
    /\ loading = TRUE
    /\ error = ""
    /\ selectedComponent = ""
    /\ pending = {[id |-> 0, op |-> "fetchCodeHealthHistory",
                   awaiting |-> "get_health_check_history"]}
    /\ started = 0
    /\ allFiles = EmptyObject /\ allFilesUtils = EmptyObject /\ fileTrends = EmptyObject
    /\ sections = EmptyObject /\ derived = EmptyObject
    /\ responseData = <<>>
    /\ promptText = Idle
    /\ TaskIdle
    /\ file = Idle /\ avgScore = Idle /\ filepath = Idle /\ category = Idle

PageFrame ==
    UNCHANGED <<calls, file, avgScore, filepath, category, promptText, taskVars,
                severityVars>>

\* the render pass that follows a state change: what the page computes and shows
\* in the view it is in
Rerendered ==
    LET view == ViewOf(Page, loading', error', healthHistory')
        main(p) == view = "main" /\ Page = p
    IN  /\ allFiles' =
            IF main("CodeHealth") THEN getFilesGroupedByType(healthHistory')
            ELSE IF main("CodeHealthInline")
                 THEN getFilesGroupedByTypeInline(healthHistory')
            ELSE EmptyObject
        /\ allFilesUtils' =
            IF main("CodeHealthHistory") /\ Len(healthHistory') > 0
            THEN getFilesGroupedByTypeUtils(healthHistory')
            ELSE EmptyObject
        /\ fileTrends' =
            IF main("CodeHealth") THEN calculateFileTrends(healthHistory')
            ELSE IF main("CodeHealthInline") THEN calculateFileTrendsInline(healthHistory')
            ELSE EmptyObject
        /\ sections' =
            IF main("CodeHealthHistory") THEN SectionsOfCodeHealthHistory(allFilesUtils')
            ELSE IF view = "main" THEN SectionsOfCodeHealth(allFiles', selectedComponent')
            ELSE EmptyObject
        /\ derived' =
            IF main("CodeHealthHistory")
            THEN [recommendations |-> getRecommendations(healthHistory')]
            ELSE IF view = "main"
                 THEN [recommendations |-> getRecommendations(healthHistory'),
                       topIssues |-> TopIssues(allFiles')]
            ELSE EmptyObject

\* fetchCodeHealthHistory: the response arrives; setHealthHistory(data), and
\* setLoading(false) in the finally block
FetchSucceeds ==
    \E r \in pending : \E data \in BackendHistories :
        /\ r.op = "fetchCodeHealthHistory"
        /\ responseData' = Append(responseData, data)
        /\ healthHistory' = HistoryAfterRender(data)
        /\ loading' = FALSE
        /\ pending' = pending \ {r}
        /\ UNCHANGED <<error, started, selectedComponent>>
        /\ PageFrame
        /\ Rerendered

\* fetchCodeHealthHistory: the call or response.json() throws
FetchFails ==
    \E r \in pending :
        /\ r.op = "fetchCodeHealthHistory"
        /\ error' = ErrorMessage(r.op)
        /\ loading' = FALSE
        /\ pending' = pending \ {r}
        /\ healthHistory' = HistoryAfterRender(healthHistory)
        /\ UNCHANGED <<started, selectedComponent, responseData>>
        /\ PageFrame
        /\ Rerendered

\* a click on a rendered 'Run Analysis' / 'Run New Analysis' button:
\* runNewAnalysis calls setLoading(true) and awaits analyze_code_health
ClickRunAnalysis ==
    /\ RunOffered(View)
    /\ started < MaxRuns
    /\ started' = started + 1
    /\ loading' = TRUE
    /\ pending' = pending \cup {[id |-> started + 1, op |-> "runNewAnalysis",
                                 awaiting |-> "analyze_code_health"]}
    /\ healthHistory' = HistoryAfterRender(healthHistory)
    /\ UNCHANGED <<error, selectedComponent, responseData>>
    /\ PageFrame
    /\ Rerendered

\* runNewAnalysis: analyze_code_health returns; get_health_check_history is called
AnalyzeSucceeds ==
    \E r \in pending :
        /\ r.op = "runNewAnalysis" /\ r.awaiting = "analyze_code_health"
        /\ pending' = (pending \ {r}) \cup
                          {[r EXCEPT !.awaiting = "get_health_check_history"]}
        /\ UNCHANGED <<healthHistory, loading, error, started, selectedComponent, responseData,
                       allFiles, allFilesUtils, fileTrends, sections, derived>>
        /\ PageFrame

\* mutant: the failure path of runNewAnalysis without the finally block
AnalyzeFailsStillLoading ==
    \E r \in pending :
        /\ r.op = "runNewAnalysis" /\ r.awaiting = "analyze_code_health"
        /\ error' = ErrorMessage(r.op)
        /\ pending' = pending \ {r}
        /\ healthHistory' = HistoryAfterRender(healthHistory)
        /\ UNCHANGED <<loading, started, selectedComponent, responseData>>
        /\ PageFrame
        /\ Rerendered

\* runNewAnalysis: analyze_code_health throws
AnalyzeFails ==
    \E r \in pending :
        /\ r.op = "runNewAnalysis" /\ r.awaiting = "analyze_code_health"
        /\ error' = ErrorMessage(r.op)
        /\ loading' = FALSE
        /\ pending' = pending \ {r}
        /\ healthHistory' = HistoryAfterRender(healthHistory)
        /\ UNCHANGED <<started, selectedComponent, responseData>>
        /\ PageFrame
        /\ Rerendered

\* runNewAnalysis: the history arrives; setHealthHistory(data), setLoading(false)
RunHistorySucceeds ==
    \E r \in pending : \E data \in BackendHistories :
        /\ r.op = "runNewAnalysis" /\ r.awaiting = "get_health_check_history"
        /\ responseData' = Append(responseData, data)
        /\ healthHistory' = HistoryAfterRender(data)
        /\ loading' = FALSE
        /\ pending' = pending \ {r}
        /\ UNCHANGED <<error, started, selectedComponent>>
        /\ PageFrame
        /\ Rerendered

\* runNewAnalysis: get_health_check_history or response.json() throws
RunHistoryFails ==
    \E r \in pending :
        /\ r.op = "runNewAnalysis" /\ r.awaiting = "get_health_check_history"
        /\ error' = ErrorMessage(r.op)
        /\ loading' = FALSE
        /\ pending' = pending \ {r}
        /\ healthHistory' = HistoryAfterRender(healthHistory)
        /\ UNCHANGED <<started, selectedComponent, responseData>>
        /\ PageFrame
        /\ Rerendered

\* runNewAnalysis of part_000: both calls returned and the history was read, but
\* the logging of the analysis result throws: analyzeResult.json() rejects, or
\* the body has no components array, or a component of name APIs has no files
\* array. setHealthHistory(data) is not reached; the catch block sets the error
AnalyzeDataFails ==
    \E r \in pending : \E data \in BackendHistories :
        /\ Page = "CodeHealth"
        /\ r.op = "runNewAnalysis" /\ r.awaiting = "get_health_check_history"
        /\ responseData' = Append(responseData, data)
        /\ error' = ErrorMessage(r.op)
        /\ loading' = FALSE
        /\ pending' = pending \ {r}
        /\ healthHistory' = HistoryAfterRender(healthHistory)
        /\ UNCHANGED <<started, selectedComponent>>
        /\ PageFrame
        /\ Rerendered

\* a click on a component card of the rendered page: setSelectedComponent, which
\* toggles in part_000 and sets in the other two pages
ClickComponent ==
    /\ View = "main"
    /\ Len(healthHistory) > 0
    /\ \E c \in 1..Len(Last(healthHistory).results.components) :
          LET name == Last(healthHistory).results.components[c].name
          IN  selectedComponent' =
                  IF Page = "CodeHealth" /\ name = selectedComponent THEN "" ELSE name
    /\ healthHistory' = HistoryAfterRender(healthHistory)
    /\ UNCHANGED <<loading, error, pending, started, responseData>>
    /\ PageFrame
    /\ Rerendered

NextPage ==
    \/ FetchSucceeds \/ FetchFails
    \/ ClickRunAnalysis
    \/ AnalyzeSucceeds \/ AnalyzeFails
    \/ RunHistorySucceeds \/ RunHistoryFails \/ AnalyzeDataFails
    \/ ClickComponent

SpecPage == InitPage /\ [][NextPage]_vars

(***************************************************************************)
(* Properties of the page lifecycle                                        *)
(***************************************************************************)
LoadMessage == "Failed to load code health history data"

RunMessage == "Failed to run code health analysis"

\* what the aggregations returned in the last render pass
Aggregated == <<allFiles, allFilesUtils, fileTrends, derived>>

Thm_C15 ==
    View = "main" =>
        \A n \in 0..MaxBackendSnapshots :
            healthHistory = BackendHistory(n) =>
                derived.recommendations =
                    IF n = 0 THEN <<>> ELSE BackendEntry(n).results.recommendations

\* the history of two snapshots: the first has no recommendations, the second
\* three, which are shown
Wit_C15 ==
    /\ View = "main"
    /\ healthHistory = BackendHistory(2)
    /\ healthHistory[1].results.recommendations = <<>>
    /\ derived.recommendations =
           <<"Add comments", "Split large files", "Reduce duplication">>

\* what every failure leaves alone: the history, and no call is issued again
NothingElseOnFailure ==
    /\ healthHistory' = healthHistory
    /\ pending' \subseteq pending /\ pending' # pending
    /\ started' = started
    /\ loading' = FALSE

\* C16: when get_health_check_history fails the page sets error to 'Failed to
\* load code health history data', when analyze_code_health fails to 'Failed to
\* run code health analysis'; healthHistory stays as it was and no call is
\* retried.
Cex_C16 ==
    [][/\ (FetchFails \/ RunHistoryFails => error' = LoadMessage /\ NothingElseOnFailure)
       /\ (AnalyzeFails => error' = RunMessage /\ NothingElseOnFailure)]_vars

\* C16 as amended: the message depends on the operation that fails, not on the
\* call. A failure of fetchCodeHealthHistory sets error to 'Failed to load code
\* health history data'; a failure of runNewAnalysis, of its analyze_code_health
\* call as well as of its get_health_check_history call, sets error to 'Failed
\* to run code health analysis'. Either way healthHistory stays as it was
\* before the operation, loading becomes false and no call is issued again.
Thm_C16 ==
    [][/\ (FetchFails => error' = LoadMessage /\ NothingElseOnFailure)
       /\ (AnalyzeFails \/ RunHistoryFails => error' = RunMessage /\ NothingElseOnFailure)
      ]_vars

\* runNewAnalysis failed after a history of two snapshots was fetched: the error
\* is shown and the history is still there
Wit_C16 ==
    /\ error = RunMessage
    /\ healthHistory = BackendHistory(2)
    /\ pending = {}
    /\ started = 1
    /\ View = "error"

\* C17: when a history fetch of a CodeHealth page succeeds with an empty list,
\* the page shows 'No Data Available' with the Run Analysis button; error stays
\* empty and the error view is not shown.
Thm_C17 ==
    [][(FetchSucceeds \/ RunHistorySucceeds) /\ healthHistory' = <<>>
       /\ Page # "CodeHealthHistory"
       => /\ View' = "nodata"
          /\ RunOffered(View')
          /\ error' = ""]_vars

\* the fetch of the mount returned the empty list
Wit_C17 ==
    /\ Page # "CodeHealthHistory"
    /\ View = "nodata"
    /\ healthHistory = <<>>
    /\ loading = FALSE /\ error = "" /\ pending = {}
    /\ started = 0

\* C18: a rerun while a prior run is in flight is not guarded against: while the
\* fetch of the mount or an earlier runNewAnalysis awaits its response, a button
\* that starts runNewAnalysis is rendered.
Cex_C18 == pending # {} => RunOffered(View)

\* C18 as amended: runNewAnalysis itself does not test for a run in flight, but
\* the pages guard it by their loading gate. While the fetch of the mount or a
\* runNewAnalysis awaits a response, loading is true and the page renders the
\* spinner only, without a button that starts runNewAnalysis. So at most one
\* operation is in flight at any time, and a rerun starts only after the prior
\* operation has completed.
Thm_C18 ==
    /\ Cardinality(pending) <= 1
    /\ pending # {} => loading /\ View = "loading" /\ ~RunOffered(View)
    /\ RunOffered(View) => pending = {}

\* the second runNewAnalysis is in flight, alone
Wit_C18 ==
    /\ started = 2
    /\ Cardinality(pending) = 1
    /\ \A r \in pending : r.op = "runNewAnalysis" /\ r.id = 2
    /\ loading

\* a request of runNewAnalysis for the history is in flight
HistoryRequested(p) ==
    \E r \in p : r.op = "runNewAnalysis" /\ r.awaiting = "get_health_check_history"

\* runNewAnalysis asks for the history only when analyze_code_health has
\* returned, and not at all when it threw; in that case healthHistory stays
StrictlyInSequence ==
    /\ (~HistoryRequested(pending) /\ HistoryRequested(pending') => AnalyzeSucceeds)
    /\ (AnalyzeFails => ~HistoryRequested(pending') /\ healthHistory' = healthHistory)

\* both calls of a runNewAnalysis have returned and the history was read
BothSucceed ==
    /\ HistoryRequested(pending) /\ ~HistoryRequested(pending')
    /\ Len(responseData') = Len(responseData) + 1

\* C22: runNewAnalysis performs its calls strictly in sequence:
\* get_health_check_history is requested only after analyze_code_health has
\* completed successfully; if analyze_code_health fails, the history is not
\* requested and healthHistory is not changed; and whenever both calls succeed,
\* healthHistory is replaced by the fetched history.
Cex_C22 ==
    [][/\ StrictlyInSequence
       /\ (BothSucceed => healthHistory' = Last(responseData') /\ error' = error)]_vars

\* the part of C22 that holds in every page
SequenceHolds == [][StrictlyInSequence]_vars

\* the last part of C22 holds in the pages that do not read the analysis result
ReplacedElsewhere ==
    [][Page # "CodeHealth" /\ BothSucceed
       => healthHistory' = Last(responseData') /\ error' = error]_vars

\* a response of the backend, or its failure, reaches the awaiting operation
Responds ==
    \/ FetchSucceeds \/ FetchFails
    \/ AnalyzeSucceeds \/ AnalyzeFails
    \/ RunHistorySucceeds \/ RunHistoryFails \/ AnalyzeDataFails

\* SpecPage when every backend call returns or fails
SpecPageLive == SpecPage /\ WF_vars(Responds)

\* C23: loading is true from the start of every history fetch or analysis run
\* until that operation finishes, and every operation whose backend calls return
\* or fail sets loading to false in the end, on the success path and on the
\* failure path alike: the spinner is shown exactly while an operation is in
\* flight.
Thm_C23 ==
    /\ [](loading <=> pending # {})
    /\ [](View = "loading" <=> pending # {})
    /\ [][ClickRunAnalysis => loading']_vars
    /\ (loading ~> ~loading)

\* two analysis runs have finished, the second one by a failure
Wit_C23 ==
    /\ started = 2
    /\ pending = {}
    /\ ~loading
    /\ View = "error"
    /\ Len(responseData) >= 2

\* C27: the error state is absorbing: once error has been set by a failed fetch
\* or a failed analysis run, no later transition clears it, the page offers no
\* action that starts another fetch or run, and healthHistory never changes
\* again.
Thm_C27 ==
    /\ [](error # "" =>
              /\ View = "error"
              /\ pending = {}
              /\ ~RunOffered(View)
              /\ ~ENABLED NextPage)
    /\ [][error # "" => error' = error /\ healthHistory' = healthHistory]_vars
    /\ [][error' # error => error = "" /\ error' \in {LoadMessage, RunMessage}]_vars

\* the fetch of the mount failed: the page shows the alert over an empty history
Wit_C27 ==
    /\ error = LoadMessage
    /\ View = "error"
    /\ healthHistory = <<>>
    /\ responseData = <<>>
    /\ pending = {}
    /\ started = 0

(***************************************************************************)
(* createFixTask (part_000): the fix prompt copied to the clipboard        *)
(***************************************************************************)
\* the largest number of issues of the file a fix prompt is made for
MaxIssues == 2

UpperCase == <<"A", "B", "C", "D", "E", "F", "G", "H", "I", "J", "K", "L", "M", "N", "O", "P", "Q", "R", "S", "T", "U", "V", "W", "X", "Y", "Z">>

LowerCase == <<"a", "b", "c", "d", "e", "f", "g", "h", "i", "j", "k", "l", "m", "n", "o", "p", "q", "r", "s", "t", "u", "v", "w", "x", "y", "z">>

\* String.prototype.toLowerCase
toLowerCase(s) ==
    [i \in 1..Len(s) |->
        IF \E k \in 1..Len(UpperCase) : UpperCase[k] = s[i]
        THEN LowerCase[CHOOSE k \in 1..Len(UpperCase) : UpperCase[k] = s[i]]
        ELSE s[i]]

\* the keywords looked for in the lower-cased issue strings
\* 'large file'
K_large_file == <<"l", "a", "r", "g", "e", " ", "f", "i", "l", "e">>

\* 'complex'
K_complex == <<"c", "o", "m", "p", "l", "e", "x">>

\* 'duplicat'
K_duplicat == <<"d", "u", "p", "l", "i", "c", "a", "t">>

\* 'function length'
K_function_length == <<"f", "u", "n", "c", "t", "i", "o", "n", " ", "l", "e", "n", "g", "t", "h">>

\* 'long method'
K_long_method == <<"l", "o", "n", "g", " ", "m", "e", "t", "h", "o", "d">>

\* 'comment'
K_comment == <<"c", "o", "m", "m", "e", "n", "t">>

\* 'naming'
K_naming == <<"n", "a", "m", "i", "n", "g">>

\* the issue strings of the modelled files: 'Large file', 'Too COMPLEX', 'Duplicated code', 'function length', 'Long Method', 'no comments', 'Naming', 'unused import'
IssuePool == {
    <<"L", "a", "r", "g", "e", " ", "f", "i", "l", "e">>,
    <<"T", "o", "o", " ", "C", "O", "M", "P", "L", "E", "X">>,
    <<"D", "u", "p", "l", "i", "c", "a", "t", "e", "d", " ", "c", "o", "d", "e">>,
    <<"f", "u", "n", "c", "t", "i", "o", "n", " ", "l", "e", "n", "g", "t", "h">>,
    <<"L", "o", "n", "g", " ", "M", "e", "t", "h", "o", "d">>,
    <<"n", "o", " ", "c", "o", "m", "m", "e", "n", "t", "s">>,
    <<"N", "a", "m", "i", "n", "g">>,
    <<"u", "n", "u", "s", "e", "d", " ", "i", "m", "p", "o", "r", "t">>}

\* 'docs/Large File.md'
PathLargeFile == <<"d", "o", "c", "s", "/", "L", "a", "r", "g", "e", " ", "F", "i", "l", "e", ".", "m", "d">>

\* the filepaths of the modelled files
FixPaths == {PathA, PathLargeFile}

\* the issue lists of at most n issues
IssueLists(n) == UNION {[1..k -> IssuePool] : k \in 0..n}

\* the suggestions, in the order createFixTask tests for them
BestPractices == <<
    "- Split large files into smaller modules with focused responsibilities",
    "- Break complex logic into smaller, more manageable functions",
    "- Extract duplicated code into reusable utility functions",
    "- Refactor long functions into smaller ones with single responsibilities",
    "- Add clear, concise comments for complex logic",
    "- Use consistent, descriptive naming conventions">>

\* a line of the prompt: the literal text of the template and the interpolated
\* string that follows it
Line(text, interpolated) == <<text, interpolated>>

\* file.issues.some(i => i.toLowerCase().includes(keyword))
SomeIssueIncludes(issues, keyword) ==
    \E i \in 1..Len(issues) : Includes(toLowerCase(issues[i]), keyword)

\* const bestPractices = []; ... the six conditional push calls
bestPractices(f) ==
    (IF \/ Includes(toLowerCase(f.filepath), K_large_file)
        \/ SomeIssueIncludes(f.issues, K_large_file)
     THEN <<BestPractices[1]>> ELSE <<>>)
    \o (IF SomeIssueIncludes(f.issues, K_complex) THEN <<BestPractices[2]>> ELSE <<>>)
    \o (IF SomeIssueIncludes(f.issues, K_duplicat) THEN <<BestPractices[3]>> ELSE <<>>)
    \o (IF \/ SomeIssueIncludes(f.issues, K_function_length)
           \/ SomeIssueIncludes(f.issues, K_long_method)
        THEN <<BestPractices[4]>> ELSE <<>>)
    \o (IF SomeIssueIncludes(f.issues, K_comment) THEN <<BestPractices[5]>> ELSE <<>>)
    \o (IF SomeIssueIncludes(f.issues, K_naming) THEN <<BestPractices[6]>> ELSE <<>>)

\* the template literal promptText, line by line
promptTextOf(f) ==
    LET practices == bestPractices(f)
    IN  <<Line("Please create a task to improve this file: ", f.filepath),
          Line("", <<>>),
          Line("Issues that need to be fixed:", <<>>)>>
        \o (IF Len(f.issues) = 0 THEN <<Line("", <<>>)>>
            ELSE [i \in 1..Len(f.issues) |-> Line("- ", f.issues[i])])
        \o <<Line("", <<>>)>>
        \o (IF Len(practices) > 0
            THEN <<Line("Recommendations:", <<>>)>>
                 \o [i \in 1..Len(practices) |-> Line(practices[i], <<>>)]
                 \o <<Line("", <<>>)>>
            ELSE <<>>)
        \o <<Line("When fixing this file:", <<>>),
             Line("- Keep existing component/function names and API contracts", <<>>),
             Line("- Focus on readability and maintainability", <<>>),
             Line("- Add appropriate comments where needed", <<>>)>>

(***************************************************************************)
(* SpecFix: the file card of one file; its button calls createFixTask      *)
(***************************************************************************)
InitFix ==
    /\ \E fp \in FixPaths : \E issues \in IssueLists(MaxIssues) :
          file = [filepath |-> fp, issues |-> issues]
    /\ promptText = <<>>
    /\ calls = {}
    /\ avgScore = Idle /\ filepath = Idle /\ category = Idle /\ healthHistory = Idle
    /\ allFiles = Idle /\ allFilesUtils = Idle /\ fileTrends = Idle
    /\ selectedComponent = Idle /\ sections = Idle
    /\ loading = Idle /\ error = Idle /\ pending = Idle /\ started = Idle
    /\ derived = Idle /\ responseData = Idle
    /\ TaskIdle

FixFrame == UNCHANGED <<file, avgScore, filepath, category, healthHistory, allFiles,
                        allFilesUtils, fileTrends, selectedComponent, sections,
                        loading, error, pending, started, derived, responseData,
                        taskVars, severityVars>>

\* a click on the enabled button (disabled={creatingTask || file.issues.length
\* === 0}): the prompt is built and navigator.clipboard.writeText succeeds
CreateFixTask ==
    /\ Len(file.issues) # 0
    /\ promptText' = promptTextOf(file)
    /\ calls' = (calls \ {"taskCreationError"}) \cup {"taskCreationSuccess"}
    /\ FixFrame

\* the same click when navigator.clipboard.writeText throws
CreateFixTaskFails ==
    /\ Len(file.issues) # 0
    /\ calls' = (calls \ {"taskCreationSuccess"}) \cup {"taskCreationError"}
    /\ UNCHANGED promptText
    /\ FixFrame

NextFix == CreateFixTask \/ CreateFixTaskFails

SpecFix == InitFix /\ [][NextFix]_vars

(***************************************************************************)
(* Properties of the fix prompt                                            *)
(***************************************************************************)
\* the keywords of the suggestions, in the order of the suggestions
SuggestionKeywords == <<
    {K_large_file}, {K_complex}, {K_duplicat},
    {K_function_length, K_long_method}, {K_comment}, {K_naming}>>

\* a keyword of suggestion k occurs, case-insensitively, in at least one issue
KeywordOccurs(k) ==
    \E i \in 1..Len(file.issues) : \E keyword \in SuggestionKeywords[k] :
        Includes(toLowerCase(file.issues[i]), keyword)

\* the suggestions whose keyword occurs in an issue, in their fixed order
ExpectedPractices ==
    LET RECURSIVE From(_)
        From(k) == IF k > Len(BestPractices) THEN <<>>
                   ELSE (IF KeywordOccurs(k) THEN <<BestPractices[k]>> ELSE <<>>)
                        \o From(k + 1)
    IN  From(1)

\* C19: the fix prompt contains the filepath, one '- issue' bullet per issue in
\* the order of the issues, and the suggestions whose keyword occurs
\* case-insensitively in at least one issue string, those and no others, in
\* their fixed order; the Recommendations block is there exactly when a keyword
\* matches.
Cex_C19 ==
    "taskCreationSuccess" \in calls =>
        /\ \E l \in 1..Len(promptText) :
              promptText[l] = Line("Please create a task to improve this file: ",
                                   file.filepath)
        /\ SelectSeq(promptText, LAMBDA line : line[1] = "- ")
               = [i \in 1..Len(file.issues) |-> Line("- ", file.issues[i])]
        /\ SelectSeq(promptText,
                     LAMBDA line : \E k \in 1..Len(BestPractices) : line[1] = BestPractices[k])
               = [i \in 1..Len(ExpectedPractices) |-> Line(ExpectedPractices[i], <<>>)]
        /\ (\E l \in 1..Len(promptText) : promptText[l][1] = "Recommendations:")
               <=> ExpectedPractices # <<>>

(***************************************************************************)
(* Properties of the normalisation of categorizeFileByPath (part_000)      *)
(***************************************************************************)
\* the path in lower case and without its leading slashes
LowerCasedAndStripped(fp) == toLowerCase(StripLeadingSlashes(fp))

\* C20: categorizeFileByPath of part_000 lower-cases the path and strips its
\* leading slashes before matching, so that paths which differ only in letter
\* case or in the number of leading slashes receive the same category: a path
\* is categorised like its lower-cased, stripped form.
Cex_C20 ==
    "catPage" \in calls =>
        category["catPage"] = categorizeFileByPath(LowerCasedAndStripped(filepath))

\* C29: the two categorizeFileByPath implementations differ only in API
\* precedence: for every filepath that matches no API pattern of either
\* implementation, the codeHealthUtils.tsx implementation and the normalizing
\* implementation of part_000 return the same category.
Cex_C29 ==
    {"catPage", "catUtils"} \subseteq calls /\ ~AnyApiPattern(filepath) =>
        category["catPage"] = category["catUtils"]

\* the two implementations agree on the non-API paths that do not start with '/'
AgreeWithoutLeadingSlash ==
    /\ {"catPage", "catUtils"} \subseteq calls
    /\ ~AnyApiPattern(filepath)
    /\ StripLeadingSlashes(filepath) = filepath
    => category["catPage"] = category["catUtils"]

(***************************************************************************)
(* Score-to-severity mappings                                              *)
(***************************************************************************)
\* scores below this are critical (if (score < 70))
CriticalBelow == 70

\* scores below this and not critical are warnings (if (score < 85))
WarningBelow == 85

\* mutant: the badge turns green from 80 on
getBadgeVariantFrom80(s) ==
    IF s < 70 THEN "destructive" ELSE IF s < 80 THEN "warning" ELSE "success"

\* codeHealthUtils.tsx
getScoreColorClass(s) ==
    IF s < CriticalBelow THEN "text-red-600"
    ELSE IF s < WarningBelow THEN "text-yellow-600"
    ELSE "text-green-600"

\* codeHealthUtils.tsx
getScoreBgClass(s) ==
    IF s < CriticalBelow THEN "bg-red-100 text-red-600"
    ELSE IF s < WarningBelow THEN "bg-yellow-100 text-yellow-600"
    ELSE "bg-green-100 text-green-600"

\* part_000 and pages/CodeHealth.tsx
getScoreColor(s) ==
    IF s < CriticalBelow THEN "text-destructive"
    ELSE IF s < WarningBelow THEN "text-warning"
    ELSE "text-success"

\* part_000 and pages/CodeHealth.tsx
getBadgeVariant(s) ==
    IF s < CriticalBelow THEN "destructive"
    ELSE IF s < WarningBelow THEN "warning"
    ELSE "success"

\* part_000 and pages/CodeHealth.tsx
getBgClass(s) ==
    IF s < CriticalBelow THEN "bg-destructive/10"
    ELSE IF s < WarningBelow THEN "bg-warning/10"
    ELSE "bg-success/10"

\* FileHealthIndicator of part_000
getSeverity(s) ==
    IF s < CriticalBelow THEN "critical"
    ELSE IF s < WarningBelow THEN "warning"
    ELSE "good"

SeverityImpls ==
    {"getScoreColorClass", "getScoreBgClass", "getScoreColor", "getBadgeVariant",
     "getBgClass", "getSeverity"}

\* a mapping that was not applied yet has no result
NoResult == ""

InitSeverity ==
    /\ score \in 0..MaxScore
    /\ severity = [i \in SeverityImpls |-> NoResult]
    /\ calls = {}
    /\ file = Idle /\ avgScore = Idle /\ filepath = Idle /\ category = Idle
    /\ healthHistory = Idle /\ allFiles = Idle /\ allFilesUtils = Idle
    /\ fileTrends = Idle /\ selectedComponent = Idle /\ sections = Idle
    /\ loading = Idle /\ error = Idle /\ pending = Idle /\ started = Idle
    /\ derived = Idle /\ responseData = Idle /\ promptText = Idle
    /\ creatingTask = Idle /\ taskCreationSuccess = Idle
    /\ taskCreationError = Idle /\ timers = Idle

SeverityFrame ==
    UNCHANGED <<score, file, avgScore, filepath, category, healthHistory, allFiles,
                allFilesUtils, fileTrends, selectedComponent, sections, pageVars,
                taskVars>>

\* the result of one mapping is rendered
Applied(impl, result) ==
    /\ impl \notin calls
    /\ severity' = [severity EXCEPT ![impl] = result]
    /\ calls' = calls \cup {impl}
    /\ SeverityFrame

CallGetScoreColorClass == Applied("getScoreColorClass", getScoreColorClass(score))

CallGetScoreBgClass == Applied("getScoreBgClass", getScoreBgClass(score))

CallGetScoreColor == Applied("getScoreColor", getScoreColor(score))

CallGetBadgeVariant == Applied("getBadgeVariant", getBadgeVariant(score))

CallGetBgClass == Applied("getBgClass", getBgClass(score))

CallGetSeverity == Applied("getSeverity", getSeverity(score))

NextSeverity ==
    \/ CallGetScoreColorClass \/ CallGetScoreBgClass \/ CallGetScoreColor
    \/ CallGetBadgeVariant \/ CallGetBgClass \/ CallGetSeverity

SpecSeverity == InitSeverity /\ [][NextSeverity]_vars

\* the level a result stands for
Red == {"text-red-600", "bg-red-100 text-red-600", "text-destructive", "destructive",
        "bg-destructive/10", "critical"}

Yellow == {"text-yellow-600", "bg-yellow-100 text-yellow-600", "text-warning",
           "warning", "bg-warning/10"}

Green == {"text-green-600", "bg-green-100 text-green-600", "text-success", "success",
          "bg-success/10", "good"}

MaxCopies == 3

\* the files of the rendered cards: two with issues ('Large file'; 'Naming' and
\* 'no comments') and one without
TaskFiles == {
    [filepath |-> PathA,
     issues |-> << <<"L", "a", "r", "g", "e", " ", "f", "i", "l", "e">> >>],
    [filepath |-> PathH,
     issues |-> << <<"N", "a", "m", "i", "n", "g">>,
                   <<"n", "o", " ", "c", "o", "m", "m", "e", "n", "t", "s">> >>],
    [filepath |-> PathLargeFile, issues |-> <<>>]}

\* useState initial values of the mounted page
InitTask ==
    /\ creatingTask = FALSE
    /\ taskCreationSuccess = <<>>
    /\ taskCreationError = <<>>
    /\ timers = <<>>
    /\ pending = {}
    /\ promptText = <<>>
    /\ calls = {}
    /\ file = Idle /\ avgScore = Idle /\ filepath = Idle /\ category = Idle
    /\ healthHistory = Idle /\ allFiles = Idle /\ allFilesUtils = Idle
    /\ fileTrends = Idle /\ selectedComponent = Idle /\ sections = Idle
    /\ loading = Idle /\ error = Idle /\ started = Idle
    /\ derived = Idle /\ responseData = Idle
    /\ score = Idle /\ severity = Idle

TaskFrame ==
    UNCHANGED <<file, avgScore, filepath, category, healthHistory, allFiles,
                allFilesUtils, fileTrends, selectedComponent, sections, loading,
                error, started, derived, responseData, severityVars>>

\* the copies started so far: those that ended set a timeout each
Copies == Len(timers) + Cardinality(pending)

\* setTimeout(() => { set...('') }, 5000)
SetTimeout(clears) == Append(timers, [clears |-> clears, fired |-> FALSE])

\* a click on the button of a card (disabled={creatingTask || file.issues.length
\* === 0}): createFixTask calls setCreatingTask(true), builds the prompt and
\* awaits navigator.clipboard.writeText(promptText)
ClickCopyFixPrompt ==
    \E f \in TaskFiles :
        /\ ~(creatingTask \/ Len(f.issues) = 0)
        /\ Copies < MaxCopies
        /\ creatingTask' = TRUE
        /\ pending' = pending \cup {[op |-> "createFixTask", file |-> f,
                                     promptText |-> promptTextOf(f)]}
        /\ calls' = calls \cup {"createFixTask"}
        /\ UNCHANGED <<taskCreationSuccess, taskCreationError, timers, promptText>>
        /\ TaskFrame

\* writeText resolves: setTaskCreationSuccess(file.filepath), the timeout is
\* set, and setCreatingTask(false) in the finally block
CopySucceeds ==
    \E r \in pending :
        /\ promptText' = r.promptText
        /\ taskCreationSuccess' = r.file.filepath
        /\ timers' = SetTimeout("taskCreationSuccess")
        /\ creatingTask' = FALSE
        /\ pending' = pending \ {r}
        /\ UNCHANGED <<taskCreationError, calls>>
        /\ TaskFrame

\* writeText rejects: setTaskCreationError(file.filepath), the timeout is set,
\* and setCreatingTask(false) in the finally block
CopyFails ==
    \E r \in pending :
        /\ taskCreationError' = r.file.filepath
        /\ timers' = SetTimeout("taskCreationError")
        /\ creatingTask' = FALSE
        /\ pending' = pending \ {r}
        /\ UNCHANGED <<taskCreationSuccess, promptText, calls>>
        /\ TaskFrame

\* the timeouts have the same delay, so the oldest one that has not fired is due
\* first
Due == {i \in 1..Len(timers) : ~timers[i].fired /\ \A j \in 1..(i - 1) : timers[j].fired}

\* a timeout fires: its callback sets the indicator it was made for to ''
TimerFires ==
    \E i \in Due :
        /\ timers' = [timers EXCEPT ![i].fired = TRUE]
        /\ taskCreationSuccess' =
               IF timers[i].clears = "taskCreationSuccess" THEN <<>>
               ELSE taskCreationSuccess
        /\ taskCreationError' =
               IF timers[i].clears = "taskCreationError" THEN <<>>
               ELSE taskCreationError
        /\ UNCHANGED <<creatingTask, pending, promptText, calls>>
        /\ TaskFrame

NextTask == ClickCopyFixPrompt \/ CopySucceeds \/ CopyFails \/ TimerFires

SpecTask == InitTask /\ [][NextTask]_vars

(***************************************************************************)
(* Properties of the Copy Fix Prompt buttons                               *)
(***************************************************************************)
\* the indicator a timeout clears
Indicator(clears) ==
    IF clears = "taskCreationSuccess" THEN taskCreationSuccess ELSE taskCreationError

\* the same after the step
IndicatorAfter(clears) ==
    IF clears = "taskCreationSuccess" THEN taskCreationSuccess' ELSE taskCreationError'

\* the timeout started by the copy that set the indicator last
TimerOfLastCopy(clears) ==
    Max({i \in 1..Len(timers) : timers[i].clears = clears})

\* the timeouts that fire in the step
Firing ==
    IF Len(timers') # Len(timers) THEN {}
    ELSE {i \in 1..Len(timers) : ~timers[i].fired /\ timers'[i].fired}

\* creatingTask is true exactly while a copy is in progress
CreatingWhileCopying == creatingTask <=> pending # {}

\* an indicator that is set changes only when a later copy of its kind ends or
\* when the timeout of the copy that set it fires
IndicatorKept ==
    \A clears \in {"taskCreationSuccess", "taskCreationError"} :
        Indicator(clears) # <<>> /\ IndicatorAfter(clears) # Indicator(clears) =>
            \/ /\ Len(timers') = Len(timers) + 1
               /\ Last(timers').clears = clears
            \/ Firing = {TimerOfLastCopy(clears)}

\* C28: after a successful createFixTask for file F, taskCreationSuccess stays
\* equal to F's filepath until the timer started by that same copy fires or a
\* later copy overwrites it; a timer started by an earlier copy never clears
\* the indicator of a later copy, and likewise for taskCreationError.
\* creatingTask is true only while a copy is in progress and false after every
\* copy, successful or failed.
Cex_C28 ==
    /\ []CreatingWhileCopying
    /\ [][IndicatorKept]_vars

\* the part of C28 about creatingTask holds
CreatingTaskHolds == []CreatingWhileCopying
====
